---- MODULE Spec2Model ----
(***************************************************************************)
(* A model of the speech-coach analysis core: the five signal-to-metric    *)
(* analyzers (backend/app/analyzers), the metric aggregator                *)
(* (backend/app/models.py), the combined endpoint and the server process   *)
(* that runs it (backend/app/routers), and the transcription fallback      *)
(* (backend/elevenLabs).                                                   *)
(*                                                                         *)
(* Every component owns one variable, a record whose fields carry the      *)
(* names of the locals of the Python function it models.  A component that *)
(* does not take part in a specification stays at its Idle record.         *)
(*                                                                         *)
(* Numbers.  Python floats are modelled exactly: landmark coordinates and  *)
(* ratio metrics are integers in thousandths, and every quotient the code  *)
(* forms is kept as a rational [num, den] (den > 0) and compared by cross  *)
(* multiplication.  Rounding of IEEE doubles is not modelled.              *)
(***************************************************************************)
EXTENDS Integers, Sequences, FiniteSets, TLC

VARIABLES eye, posture, speech, voice, inton, agg, request, transcription,
          server

vars == <<eye, posture, speech, voice, inton, agg, request, transcription, server>>

Idle == [pc |-> "idle"]

----------------------------------------------------------------------------
(* Helpers: rationals and sequences                                        *)

Abs(x) == IF x < 0 THEN -x ELSE x

Min(a, b) == IF a < b THEN a ELSE b

Max(a, b) == IF a > b THEN a ELSE b

Rat(n, d) == [num |-> n, den |-> d]

RatLess(a, b) == a.num * b.den < b.num * a.den

RatLeq(a, b) == a.num * b.den <= b.num * a.den

RatEq(a, b) == a.num * b.den = b.num * a.den

RECURSIVE SumSeq(_)
SumSeq(s) == IF s = <<>> THEN 0 ELSE Head(s) + SumSeq(Tail(s))

----------------------------------------------------------------------------
(* EyeContactAnalyzer (analyzers/cv/eye_contact_analyzer.py)               *)

\* Longest video, in decoded frames, the eye-contact pass is followed over.
MaxEyeFrames == 5

\* threshold=0.03 of is_looking_at_camera, in thousandths.
GazeThreshold == 30

\* The head-orientation tolerance 0.15, in thousandths.
HeadTolerance == 150

\* The iris visibility floor 0.5, in thousandths.
IrisVisibility == 500

\* Frame rates cap.get(CAP_PROP_FPS) reports; 0 stands for "unknown".
FpsValues == {0, 5, 25, 30}

\* fps = cap.get(cv2.CAP_PROP_FPS) or 30
EyeFps(reported) == IF reported = 0 THEN 30 ELSE reported

\* frame_interval = max(1, int(fps / 10))
FrameInterval(fps) == Max(1, fps \div 10)

\* One face mesh as the landmark provider returns it, in thousandths of the
\* frame: the two iris centres (landmarks 468, 473), the eye corners and
\* lids (33, 133, 159, 145, 362, 263, 386, 374), the nose tip (1) and the
\* face edges (234, 454).  has_iris = FALSE is a mesh without iris points
\* (landmarks[468] raises IndexError).
FaceMeshes ==
    [ has_iris : BOOLEAN,
      left_iris : [x : {0, 350, 379}, y : {400, 460}, visibility : {500, 900}],
      right_iris : [x : {650, 681, 1000}, y : {400}, visibility : {500, 900}],
      left_eye_left : {300}, left_eye_right : {400},
      left_eye_top : {390}, left_eye_bottom : {410},
      right_eye_left : {600}, right_eye_right : {700},
      right_eye_top : {390}, right_eye_bottom : {410},
      nose_x : {500, 649, 650}, face_left : {300}, face_right : {700} ]

\* What face_mesh.process returns for one sampled frame: no face, or a mesh.
NoFace == [face |-> FALSE]

EyeSamples == {NoFace} \cup { [face |-> TRUE, lm |-> m] : m \in FaceMeshes }

\* estimate_gaze_direction, times 4 (two halvings are left out so that the
\* value stays an integer): avg_gaze = ((iris - centre)_left + (iris - centre)_right) / 2
\* with centre = (corner + corner) / 2.
estimate_gaze_direction4(lm) ==
    [ x |-> (2 * lm.left_iris.x - (lm.left_eye_left + lm.left_eye_right))
            + (2 * lm.right_iris.x - (lm.right_eye_left + lm.right_eye_right)),
      y |-> (2 * lm.left_iris.y - (lm.left_eye_top + lm.left_eye_bottom))
            + (2 * lm.right_iris.y - (lm.right_eye_top + lm.right_eye_bottom)) ]

\* is_looking_at_camera on the fourfold gaze: abs(gaze) < threshold.
is_looking_at_camera4(g, threshold) ==
    Abs(g.x) < 4 * threshold /\ Abs(g.y) < 4 * threshold

\* The iris validity test of analyze (lines 102-104).
IrisValid(lm) ==
    /\ lm.left_iris.visibility > IrisVisibility
    /\ lm.right_iris.visibility > IrisVisibility
    /\ lm.left_iris.x > 0 /\ lm.left_iris.x < 1000
    /\ lm.right_iris.x > 0 /\ lm.right_iris.x < 1000

\* head_orientation_ok = abs(nose.x - face_center_x) < 0.15, doubled.
HeadOrientationOk(lm) ==
    Abs(2 * lm.nose_x - (lm.face_left + lm.face_right)) < 2 * HeadTolerance

\* is_looking of a frame with a detected face (lines 97-126).
IsLooking(lm) ==
    IF ~lm.has_iris THEN FALSE            \* except (IndexError, AttributeError)
    ELSE IF IrisValid(lm)
         THEN /\ is_looking_at_camera4(estimate_gaze_direction4(lm), GazeThreshold)
              /\ HeadOrientationOk(lm)
         ELSE FALSE

\* The locals of analyze before the capture is opened; face_mesh is the
\* detector held by the analyzer object since __init__ (lines 11-18).
EyeInit ==
    [ pc |-> "start", cap |-> "closed", face_mesh |-> "open",
      fps |-> 30, frame_interval |-> 3,
      eye_contact_frames |-> 0, total_frames |-> 0,
      eye_contact_durations |-> <<>>, current_duration |-> 0,
      gaze_shifts |-> 0, prev_looking |-> "None", frame_count |-> 0,
      history |-> <<>>,
      result |-> [ eye_contact_percentage |-> Rat(0, 1),
                   average_eye_contact_duration |-> Rat(0, 1),
                   gaze_shifts_per_minute |-> Rat(0, 1),
                   direct_eye_contact_score |-> Rat(0, 1),
                   feedback |-> <<>> ] ]

PyBool(b) == IF b THEN "True" ELSE "False"

\* current_duration / (fps / frame_interval), in seconds.
RunSeconds(e) == Rat(e.current_duration * e.frame_interval, e.fps)

\* How a sample reads to an observer of the input alone (kept in history, which
\* the code does not have): no face, a face whose iris points are missing or
\* fail the validity test, a valid face with gaze offset (0,0) and a forward
\* head (nose within 0.15 of the face centre line), or any other valid face.
SampleKind(s) ==
    IF ~s.face THEN "noface"
    ELSE IF ~s.lm.has_iris \/ ~IrisValid(s.lm) THEN "unusable"
    ELSE IF /\ estimate_gaze_direction4(s.lm) = [x |-> 0, y |-> 0]
            /\ HeadOrientationOk(s.lm)
         THEN "centered"
         ELSE "other"

\* EyeFaceSample without "total_frames += 1" (line 94 lost).
EyeFaceSampleUncounted(e, is_looking) ==
    LET run == IF is_looking
               THEN [e EXCEPT !.eye_contact_frames = @ + 1, !.current_duration = @ + 1]
               ELSE IF e.current_duration > 0
                    THEN [e EXCEPT
                            !.eye_contact_durations = Append(@, RunSeconds(e)),
                            !.current_duration = 0]
                    ELSE e
        shifted == IF run.prev_looking # "None" /\ run.prev_looking # PyBool(is_looking)
                   THEN [run EXCEPT !.gaze_shifts = @ + 1]
                   ELSE run
    IN  [shifted EXCEPT !.prev_looking = PyBool(is_looking)]

\* EyeFaceSample without the "prev_looking is not None" test of line 137:
\* the first sample counts as a shift.
EyeFaceSampleFirstShift(e, is_looking) ==
    LET counted == [e EXCEPT !.total_frames = @ + 1]
        run == IF is_looking
               THEN [counted EXCEPT !.eye_contact_frames = @ + 1,
                                    !.current_duration = @ + 1]
               ELSE IF counted.current_duration > 0
                    THEN [counted EXCEPT
                            !.eye_contact_durations = Append(@, RunSeconds(counted)),
                            !.current_duration = 0]
                    ELSE counted
        shifted == IF run.prev_looking # PyBool(is_looking)
                   THEN [run EXCEPT !.gaze_shifts = @ + 1]
                   ELSE run
    IN  [shifted EXCEPT !.prev_looking = PyBool(is_looking)]

\* The body of "if frame_count % frame_interval == 0" for a detected face
\* (lines 92-139).
EyeFaceSample(e, is_looking) ==
    LET counted == [e EXCEPT !.total_frames = @ + 1]
        run == IF is_looking
               THEN [counted EXCEPT !.eye_contact_frames = @ + 1,
                                    !.current_duration = @ + 1]
               ELSE IF counted.current_duration > 0
                    THEN [counted EXCEPT
                            !.eye_contact_durations = Append(@, RunSeconds(counted)),
                            !.current_duration = 0]
                    ELSE counted
        shifted == IF run.prev_looking # "None" /\ run.prev_looking # PyBool(is_looking)
                   THEN [run EXCEPT !.gaze_shifts = @ + 1]
                   ELSE run
    IN  [shifted EXCEPT !.prev_looking = PyBool(is_looking)]

\* EyeNoFaceSample with the sample counted among the face-detected ones, as
\* a sample that is not looking.
EyeNoFaceSampleCounted(e) ==
    LET shifted == IF e.prev_looking = "True"
                   THEN [e EXCEPT !.gaze_shifts = @ + 1]
                   ELSE e
    IN  [shifted EXCEPT !.prev_looking = "False", !.total_frames = @ + 1]

\* EyeNoFaceSample counting no gaze shift when the face is lost.
EyeNoFaceSampleNoShift(e) == [e EXCEPT !.prev_looking = "False"]

\* EyeNoFaceSample giving up the run that was open when the face is lost.
EyeNoFaceSampleDropsRun(e) ==
    LET shifted == IF e.prev_looking = "True"
                   THEN [e EXCEPT !.gaze_shifts = @ + 1]
                   ELSE e
    IN  [shifted EXCEPT !.prev_looking = "False", !.current_duration = 0]

\* The else branch: no face in the sampled frame (lines 140-145).
EyeNoFaceSample(e) ==
    LET shifted == IF e.prev_looking = "True"
                   THEN [e EXCEPT !.gaze_shifts = @ + 1]
                   ELSE e
    IN  [shifted EXCEPT !.prev_looking = "False"]

\* One sampled frame, with the observer's record of it appended to history.
EyeSample(e, s) ==
    LET looking == IF s.face THEN IsLooking(s.lm) ELSE FALSE
        after == IF s.face THEN EyeFaceSample(e, looking) ELSE EyeNoFaceSample(e)
    IN  [after EXCEPT !.history =
            Append(@, [kind |-> SampleKind(s), is_looking |-> looking])]

RECURSIVE SumNum(_)
SumNum(s) == IF s = <<>> THEN 0 ELSE Head(s).num + SumNum(Tail(s))

\* np.mean of the duration list; every entry has the denominator fps.
MeanDuration(durations, fps) == Rat(SumNum(durations), fps * Len(durations))

\* EyeFeedback with the elif chain of lines 176-179 written as plain ifs.
EyeFeedbackNoElif(total_frames, pct, shifts_per_min, avg_duration, durations) ==
    LET f0 == IF total_frames = 0 THEN <<"no_face_detected">> ELSE <<>>
        f1 == IF RatLess(pct, Rat(40, 1)) THEN Append(f0, "eye_contact_very_low")
              ELSE IF RatLess(pct, Rat(60, 1)) THEN Append(f0, "eye_contact_aim_70_80")
              ELSE f0
        f2 == IF RatLess(Rat(20, 1), shifts_per_min)
              THEN Append(f1, "gaze_shifts_frequent") ELSE f1
        f3 == IF RatLess(avg_duration, Rat(2, 1)) /\ durations # <<>>
              THEN Append(f2, "eye_contact_brief") ELSE f2
    IN  IF f3 = <<>> /\ RatLess(Rat(0, 1), pct)
        THEN Append(f3, "eye_contact_excellent") ELSE f3

\* EyeFeedback with the "very low" rule asking for a positive percentage.
EyeFeedbackPositiveOnly(total_frames, pct, shifts_per_min, avg_duration, durations) ==
    LET f1 == IF total_frames = 0 THEN <<"no_face_detected">>
              ELSE IF RatLess(Rat(0, 1), pct) /\ RatLess(pct, Rat(40, 1))
                   THEN <<"eye_contact_very_low">>
              ELSE IF RatLess(Rat(0, 1), pct) /\ RatLess(pct, Rat(60, 1))
                   THEN <<"eye_contact_aim_70_80">>
              ELSE <<>>
        f2 == IF RatLess(Rat(20, 1), shifts_per_min)
              THEN Append(f1, "gaze_shifts_frequent") ELSE f1
        f3 == IF RatLess(avg_duration, Rat(2, 1)) /\ durations # <<>>
              THEN Append(f2, "eye_contact_brief") ELSE f2
    IN  IF f3 = <<>> /\ RatLess(Rat(0, 1), pct)
        THEN Append(f3, "eye_contact_excellent") ELSE f3

\* The feedback rules of EyeContactAnalyzer.analyze (lines 173-187).
EyeFeedback(total_frames, pct, shifts_per_min, avg_duration, durations) ==
    LET f1 == IF total_frames = 0 THEN <<"no_face_detected">>
              ELSE IF RatLess(pct, Rat(40, 1)) THEN <<"eye_contact_very_low">>
              ELSE IF RatLess(pct, Rat(60, 1)) THEN <<"eye_contact_aim_70_80">>
              ELSE <<>>
        f2 == IF RatLess(Rat(20, 1), shifts_per_min)
              THEN Append(f1, "gaze_shifts_frequent") ELSE f1
        f3 == IF RatLess(avg_duration, Rat(2, 1)) /\ durations # <<>>
              THEN Append(f2, "eye_contact_brief") ELSE f2
    IN  IF f3 = <<>> /\ RatLess(Rat(0, 1), pct)
        THEN Append(f3, "eye_contact_excellent") ELSE f3

\* Everything after the frame loop (lines 149-195).
\* min(eye_contact_percentage, 1.0): the division by 100 forgotten.
DirectEyeContactScoreOfPercent(pct) ==
    IF RatLess(pct, Rat(1, 1)) THEN pct ELSE Rat(1, 1)

\* direct_eye_contact_score = min(eye_contact_percentage / 100, 1.0) (line
\* 170).
DirectEyeContactScore(pct) ==
    IF RatLess(Rat(pct.num, pct.den * 100), Rat(1, 1))
    THEN Rat(pct.num, pct.den * 100) ELSE Rat(1, 1)

EyeFinish(e) ==
    LET durations == IF e.current_duration > 0
                     THEN Append(e.eye_contact_durations, RunSeconds(e))
                     ELSE e.eye_contact_durations
        pct == IF e.total_frames > 0
               THEN Rat(e.eye_contact_frames * 100, e.total_frames)
               ELSE Rat(0, 1)
        avg == IF durations # <<>> THEN MeanDuration(durations, e.fps) ELSE Rat(0, 1)
        \* duration_minutes = frame_count / fps / 60
        spm == IF e.frame_count > 0
               THEN Rat(e.gaze_shifts * e.fps * 60, e.frame_count)
               ELSE Rat(0, 1)
        direct == DirectEyeContactScore(pct)
    IN  [e EXCEPT !.pc = "done", !.cap = "released",
                  !.eye_contact_durations = durations,
                  !.result = [ eye_contact_percentage |-> pct,
                               average_eye_contact_duration |-> avg,
                               gaze_shifts_per_minute |-> spm,
                               direct_eye_contact_score |-> direct,
                               feedback |-> EyeFeedback(e.total_frames, pct, spm,
                                                        avg, durations) ]]

\* cap = cv2.VideoCapture(video_path); raise unless cap.isOpened().
EyeOpen ==
    /\ eye.pc = "start"
    /\ \/ \E reported \in FpsValues :
            eye' = [eye EXCEPT !.pc = "loop", !.cap = "open",
                               !.fps = EyeFps(reported),
                               !.frame_interval = FrameInterval(EyeFps(reported))]
       \/ eye' = [eye EXCEPT !.pc = "raised"]
    /\ UNCHANGED <<posture, speech, voice, inton, agg, request, transcription, server>>

\* One iteration of the while loop with ret true.
EyeReadFrame ==
    /\ eye.pc = "loop"
    /\ eye.frame_count < MaxEyeFrames
    /\ \/ /\ eye.frame_count % eye.frame_interval = 0
          /\ \E s \in EyeSamples :
                eye' = [EyeSample(eye, s) EXCEPT !.frame_count = @ + 1]
       \/ /\ eye.frame_count % eye.frame_interval # 0
          /\ eye' = [eye EXCEPT !.frame_count = @ + 1]
    /\ UNCHANGED <<posture, speech, voice, inton, agg, request, transcription, server>>

\* An iteration on a sampled frame in which cv2.cvtColor or
\* self.face_mesh.process raises (lines 89-90): nothing in analyze catches
\* it, so it leaves analyze before cap.release() at line 153.
EyeFrameRaises ==
    /\ eye.pc = "loop"
    /\ eye.frame_count < MaxEyeFrames
    /\ eye.frame_count % eye.frame_interval = 0
    /\ eye' = [eye EXCEPT !.pc = "raised"]
    /\ UNCHANGED <<posture, speech, voice, inton, agg, request, transcription, server>>

\* __del__ (lines 197-199), run by the interpreter when the analyzer object
\* is collected: the only place the face mesh is closed.
EyeDel ==
    /\ eye.pc \in {"done", "raised"}
    /\ eye.face_mesh = "open"
    /\ eye' = [eye EXCEPT !.face_mesh = "closed"]
    /\ UNCHANGED <<posture, speech, voice, inton, agg, request, transcription, server>>

\* cap.read() returns ret false: the loop ends and the metrics are built.
EyeEndOfVideo ==
    /\ eye.pc = "loop"
    /\ eye' = EyeFinish(eye)
    /\ UNCHANGED <<posture, speech, voice, inton, agg, request, transcription, server>>

EyeNext ==
    EyeOpen \/ EyeReadFrame \/ EyeFrameRaises \/ EyeEndOfVideo \/ EyeDel

InitEye ==
    /\ eye = EyeInit /\ posture = Idle /\ speech = Idle
    /\ voice = Idle /\ inton = Idle /\ agg = Idle
    /\ request = Idle /\ transcription = Idle /\ server = Idle

SpecEye == InitEye /\ [][EyeNext]_vars

----------------------------------------------------------------------------
(* PostureAnalyzer (analyzers/cv/posture_analyzer.py)                      *)

\* Longest video, in decoded frames, the posture pass is followed over.
MaxPostureFrames == 11

\* "Process every 5th frame": frame_count % 5 == 0.
PostureStride == 5

\* The landmark visibility floor 0.5, in thousandths.
PoseVisibility == 500

\* Scores are kept in units of 1/2000, so that halves of thousandths (the
\* means of two coordinates) stay integers.  One is the score 1.0.
One == 2 * 1000

\* One pose skeleton, in thousandths of the frame: the shoulder and hip
\* landmarks analyze reads (the nose is read and never used).
PoseLandmarks ==
    [ left_shoulder : [x : {300, 400}, y : {300, 340}, visibility : {500, 900}],
      right_shoulder : [x : {600, 700}, y : {300}, visibility : {500, 900}],
      left_hip : [y : {300, 500, 1000}, visibility : {500, 900}],
      right_hip : [y : {500}, visibility : {500, 900}] ]

NoPose == [pose |-> FALSE]

PoseSamples == {NoPose} \cup { [pose |-> TRUE, lm |-> m] : m \in PoseLandmarks }

\* Skeletons at the edges of the normalised frame: every coordinate the
\* scores read is 0.0 or 1.0, the left shoulder also at y = 0.8 (which, with
\* the other three at the bottom edge, gives vertical_alignment = 0.1).  One
\* skeleton in two has a hidden hip.
CornerLandmarks ==
    [ left_shoulder : [x : {0, 1000}, y : {0, 800, 1000}, visibility : {900}],
      right_shoulder : [x : {0, 1000}, y : {0, 1000}, visibility : {900}],
      left_hip : [y : {0, 1000}, visibility : {900}],
      right_hip : [y : {1000}, visibility : {500, 900}] ]

CornerSamples == {NoPose} \cup { [pose |-> TRUE, lm |-> m] : m \in CornerLandmarks }

\* The visibility test of lines 54-55.
KeyLandmarksVisible(lm) ==
    /\ lm.left_shoulder.visibility > PoseVisibility
    /\ lm.right_shoulder.visibility > PoseVisibility
    /\ lm.left_hip.visibility > PoseVisibility
    /\ lm.right_hip.visibility > PoseVisibility

\* shoulder_alignment = 1.0 - min(shoulder_height_diff * 10, 1.0)
ShoulderAlignment(lm) ==
    One - Min(Abs(lm.left_shoulder.y - lm.right_shoulder.y) * 2 * 10, One)

\* vertical_alignment = abs(shoulder_center_y - hip_center_y), in units of
\* 1/2000 (the two centres are means of two thousandths).
VerticalAlignment(lm) ==
    Abs((lm.left_shoulder.y + lm.right_shoulder.y) - (lm.left_hip.y + lm.right_hip.y))

\* BackStraightness without the max(0.0, ...) of the third branch.
BackStraightnessUnclamped(lm) ==
    LET va == VerticalAlignment(lm)
    IN  IF 200 <= va /\ va <= 600
        THEN One - Abs(va - 400) * 2
        ELSE IF va < 200
             THEN va * 5
             ELSE One - (va - 600) * 2

\* back_straightness, the three branches of lines 75-83 (expected_diff = 0.2).
BackStraightness(lm) ==
    LET va == VerticalAlignment(lm)
    IN  IF 200 <= va /\ va <= 600
        THEN One - Abs(va - 400) * 2
        ELSE IF va < 200
             THEN va * 5
             ELSE Max(0, One - (va - 600) * 2)

\* current_shoulder_center = (left_shoulder.x + right_shoulder.x) / 2, in 1/2000.
ShoulderCenter(lm) == lm.left_shoulder.x + lm.right_shoulder.x

\* stability = 1.0 - min(movement * 20, 1.0)
Stability(current, prev) == One - Min(Abs(current - prev) * 20, One)

\* confidence = min(shoulder_width * 3, 1.0)
Confidence(lm) == Min(Abs(lm.left_shoulder.x - lm.right_shoulder.x) * 2 * 3, One)

\* The locals of analyze before the capture is opened.  frames_read (the
\* number of frames cap.read() has returned) and history (what each sampled
\* frame held, with its index among the decoded frames) are the observer's.
\* pose is the detector held by the analyzer object since __init__.
PostureInit ==
    [ pc |-> "start", cap |-> "closed", pose |-> "open",
      shoulder_alignments |-> <<>>, back_straightness_scores |-> <<>>,
      stability_scores |-> <<>>, confidence_scores |-> <<>>,
      prev_shoulder_center |-> -1, frame_count |-> 0,
      frames_read |-> 0, history |-> <<>>,
      result |-> [ average_shoulder_alignment |-> Rat(0, 1),
                   average_back_straightness |-> Rat(0, 1),
                   stability_score |-> Rat(0, 1),
                   confidence_score |-> Rat(0, 1),
                   feedback |-> <<>> ] ]

\* PostureValidSample scoring the first valid sample as perfectly stable
\* (no "prev_shoulder_center is not None" test).
PostureValidSampleFirstStable(p, lm) ==
    LET current == ShoulderCenter(lm)
    IN  [p EXCEPT
           !.shoulder_alignments = Append(@, ShoulderAlignment(lm)),
           !.back_straightness_scores = Append(@, BackStraightness(lm)),
           !.stability_scores =
               IF p.prev_shoulder_center # -1
               THEN Append(@, Stability(current, p.prev_shoulder_center))
               ELSE Append(@, One),
           !.prev_shoulder_center = current,
           !.confidence_scores = Append(@, Confidence(lm))]

\* The scores of one valid sample appended to the four lists (lines 58-100);
\* prev_shoulder_center = -1 stands for None.
PostureValidSample(p, lm) ==
    LET current == ShoulderCenter(lm)
    IN  [p EXCEPT
           !.shoulder_alignments = Append(@, ShoulderAlignment(lm)),
           !.back_straightness_scores = Append(@, BackStraightness(lm)),
           !.stability_scores =
               IF p.prev_shoulder_center # -1
               THEN Append(@, Stability(current, p.prev_shoulder_center))
               ELSE @,
           !.prev_shoulder_center = current,
           !.confidence_scores = Append(@, Confidence(lm))]

\* MeanOrDefault with the empty list scored 0.0 instead of 0.7.
MeanOrZero(scores) ==
    IF scores # <<>> THEN Rat(SumSeq(scores), Len(scores) * One) ELSE Rat(0, 1)

\* np.mean(scores) if scores else 0.7
MeanOrDefault(scores) ==
    IF scores # <<>> THEN Rat(SumSeq(scores), Len(scores) * One) ELSE Rat(7, 10)

\* The feedback rules of PostureAnalyzer.analyze (lines 113-124).
PostureFeedback(alignment, straightness, stability, confidence) ==
    LET f1 == IF RatLess(alignment, Rat(7, 10)) THEN <<"shoulders_level">> ELSE <<>>
        f2 == IF RatLess(straightness, Rat(7, 10))
              THEN Append(f1, "straight_back") ELSE f1
        f3 == IF RatLess(stability, Rat(6, 10))
              THEN Append(f2, "stable_posture") ELSE f2
        f4 == IF RatLess(confidence, Rat(6, 10))
              THEN Append(f3, "open_posture") ELSE f3
    IN  IF f4 = <<>> THEN <<"posture_good">> ELSE f4

\* Everything after the frame loop (lines 104-132).
PostureFinish(p) ==
    LET a == MeanOrDefault(p.shoulder_alignments)
        b == MeanOrDefault(p.back_straightness_scores)
        s == MeanOrDefault(p.stability_scores)
        c == MeanOrDefault(p.confidence_scores)
    IN  [p EXCEPT !.pc = "done", !.cap = "released",
                  !.result = [ average_shoulder_alignment |-> a,
                               average_back_straightness |-> b,
                               stability_score |-> s,
                               confidence_score |-> c,
                               feedback |-> PostureFeedback(a, b, s, c) ]]

\* cap = cv2.VideoCapture(video_path); raise unless cap.isOpened().
PostureOpen ==
    /\ posture.pc = "start"
    /\ \/ posture' = [posture EXCEPT !.pc = "loop", !.cap = "open"]
       \/ posture' = [posture EXCEPT !.pc = "raised"]
    /\ UNCHANGED <<eye, speech, voice, inton, agg, request, transcription, server>>

\* The observer's note of a sampled frame.
PostureNote(p, kind) ==
    [p EXCEPT !.frames_read = @ + 1,
              !.history = Append(@, [kind |-> kind, frame |-> p.frames_read])]

\* One iteration of the while loop with ret true.  A detected pose whose key
\* landmarks are not all visible leaves the iteration by "continue", which
\* skips frame_count += 1 at the end of the loop body.
PostureReadFrameOver(samples) ==
    /\ posture.pc = "loop"
    /\ posture.frames_read < MaxPostureFrames
    /\ \/ /\ posture.frame_count % PostureStride # 0
          /\ posture' = [posture EXCEPT !.frame_count = @ + 1, !.frames_read = @ + 1]
       \/ /\ posture.frame_count % PostureStride = 0
          /\ \E s \in samples :
               IF ~s.pose
               THEN posture' = [PostureNote(posture, "nopose") EXCEPT !.frame_count = @ + 1]
               ELSE IF ~KeyLandmarksVisible(s.lm)
                    THEN posture' = PostureNote(posture, "lowvis")
                    ELSE posture' = [PostureNote(PostureValidSample(posture, s.lm), "valid")
                                       EXCEPT !.frame_count = @ + 1]
    /\ UNCHANGED <<eye, speech, voice, inton, agg, request, transcription, server>>

\* The loop iteration on the detector's usual output.
PostureReadFrame == PostureReadFrameOver(PoseSamples)

\* The loop iteration on skeletons at the edges of the frame.
PostureReadCornerFrame == PostureReadFrameOver(CornerSamples)

\* An iteration on a sampled frame in which cv2.cvtColor or
\* self.pose.process raises (lines 40-41): nothing in analyze catches it, so
\* it leaves analyze before cap.release() at line 104.
PostureFrameRaises ==
    /\ posture.pc = "loop"
    /\ posture.frames_read < MaxPostureFrames
    /\ posture.frame_count % PostureStride = 0
    /\ posture' = [posture EXCEPT !.pc = "raised"]
    /\ UNCHANGED <<eye, speech, voice, inton, agg, request, transcription, server>>

\* __del__ (lines 134-136), run by the interpreter when the analyzer object
\* is collected: the only place the pose detector is closed.
PostureDel ==
    /\ posture.pc \in {"done", "raised"}
    /\ posture.pose = "open"
    /\ posture' = [posture EXCEPT !.pose = "closed"]
    /\ UNCHANGED <<eye, speech, voice, inton, agg, request, transcription, server>>

\* cap.read() returns ret false: the loop ends and the metrics are built.
PostureEndOfVideo ==
    /\ posture.pc = "loop"
    /\ posture' = PostureFinish(posture)
    /\ UNCHANGED <<eye, speech, voice, inton, agg, request, transcription, server>>

PostureNext ==
    \/ PostureOpen \/ PostureReadFrame \/ PostureFrameRaises
    \/ PostureEndOfVideo \/ PostureDel

InitPosture ==
    /\ posture = PostureInit /\ eye = Idle /\ speech = Idle
    /\ voice = Idle /\ inton = Idle /\ agg = Idle
    /\ request = Idle /\ transcription = Idle /\ server = Idle

SpecPosture == InitPosture /\ [][PostureNext]_vars

PostureCornersNext ==
    \/ PostureOpen \/ PostureReadCornerFrame \/ PostureFrameRaises
    \/ PostureEndOfVideo \/ PostureDel

SpecPostureCorners == InitPosture /\ [][PostureCornersNext]_vars

----------------------------------------------------------------------------
(* VoiceAnalyzer (analyzers/voice/voice_analyzer.py)                       *)

\* Longest pitch track, in analysis frames, the audio analyzers are given.
MaxPitchFrames == 2

\* The dominant pitch of one analysis frame, in Hz (0: no pitch found).
PitchValues == {0, 49, 50, 220, 501}

RECURSIVE SeqsUpTo(_, _)
SeqsUpTo(S, n) ==
    IF n = 0 THEN {<<>>}
    ELSE LET shorter == SeqsUpTo(S, n - 1)
         IN  shorter \cup { Append(s, x) : s \in {q \in shorter : Len(q) = n - 1}, x \in S }

PitchTracks == SeqsUpTo(PitchValues, MaxPitchFrames)

RECURSIVE FilterPitch(_, _, _)
FilterPitch(track, lo, hi) ==
    IF track = <<>> THEN <<>>
    ELSE LET rest == FilterPitch(Tail(track), lo, hi)
         IN  IF Head(track) > 0 /\ lo <= Head(track) /\ Head(track) <= hi
             THEN <<Head(track)>> \o rest ELSE rest

RECURSIVE MaxSeq(_)
MaxSeq(s) == IF Len(s) = 1 THEN s[1] ELSE Max(s[1], MaxSeq(Tail(s)))

RECURSIVE MinSeq(_)
MinSeq(s) == IF Len(s) = 1 THEN s[1] ELSE Min(s[1], MinSeq(Tail(s)))

\* What the audio feature extractor yields for a clip that loaded: the mean
\* and standard deviation of the dB track, the pitch track with the standard
\* deviation numpy finds for its kept values, the mean spectral centroid (Hz)
\* and the mean zero-crossing rate (thousandths).  The deviations are the
\* extractor's own numbers and are not recomputed here.
VoiceFeatures ==
    [ avg_volume : {-31, -30, -20}, volume_std : {0, 4, 5},
      track : PitchTracks, pitch_std : {0, 13, 14},
      centroid : {2000, 2100, 4000}, zcr : {60, 200} ]

\* How librosa.load and the feature calls end: a clip with features, an
\* empty clip (len(y) == 0), an exception of a feature call ("raises"), or
\* an exception of librosa.load itself on a file it cannot open or decode
\* ("unopenable").
VoiceInputs ==
    { [kind |-> "raises"], [kind |-> "empty"], [kind |-> "unopenable"] }
        \cup { [kind |-> "features", f |-> f] : f \in VoiceFeatures }

\* The fallback record of the except branch (lines 93-103).
VoiceFallback ==
    [ average_volume |-> Rat(-20, 1), volume_consistency |-> Rat(7, 10),
      clarity_score |-> Rat(7, 10), pitch_range |-> Rat(50, 1),
      average_pitch |-> Rat(150, 1), voice_stability |-> Rat(7, 10),
      feedback |-> <<"could_not_analyze_voice">> ]

\* The feedback rules of VoiceAnalyzer.analyze (lines 70-81).
VoiceFeedback(consistency, clarity, stability, volume) ==
    LET f1 == IF RatLess(consistency, Rat(7, 10)) THEN <<"volume_varies">> ELSE <<>>
        f2 == IF RatLess(clarity, Rat(7, 10)) THEN Append(f1, "enunciate") ELSE f1
        f3 == IF RatLess(stability, Rat(6, 10)) THEN Append(f2, "pitch_varies") ELSE f2
        f4 == IF RatLess(volume, Rat(-30, 1)) THEN Append(f3, "volume_low") ELSE f3
    IN  IF f4 = <<>> THEN <<"voice_excellent">> ELSE f4

\* The try body of VoiceAnalyzer.analyze on extracted features (lines 23-91).
VoiceMetricsOf(f) ==
    LET pitch_values == FilterPitch(f.track, 50, 500)
        consistency == Rat(10, 10 + f.volume_std)
        avg_pitch == IF pitch_values # <<>>
                     THEN Rat(SumSeq(pitch_values), Len(pitch_values))
                     ELSE Rat(150, 1)
        pitch_range == IF pitch_values # <<>>
                       THEN Rat(MaxSeq(pitch_values) - MinSeq(pitch_values), 1)
                       ELSE Rat(50, 1)
        stability == IF Len(pitch_values) > 1
                     THEN Rat(20, 20 + f.pitch_std) ELSE Rat(7, 10)
        raw == Rat(f.centroid * (1000 - Min(f.zcr, 100) * 5), 3000 * 1000)
        clarity == IF RatLess(raw, Rat(1, 1)) THEN raw ELSE Rat(1, 1)
    IN  [ average_volume |-> Rat(f.avg_volume, 1), volume_consistency |-> consistency,
          clarity_score |-> clarity, pitch_range |-> pitch_range,
          average_pitch |-> avg_pitch, voice_stability |-> stability,
          feedback |-> VoiceFeedback(consistency, clarity, stability,
                                     Rat(f.avg_volume, 1)) ]

\* input is the observer's: how the load and the feature calls ended.
VoiceInit ==
    [pc |-> "start", path |-> "none", input |-> "none", result |-> VoiceFallback]

\* VoiceAnalyze with the empty-audio test placed before the try block: its
\* exception leaves analyze.
VoiceAnalyzeEmptyEscapes ==
    /\ voice.pc = "start"
    /\ \E in \in VoiceInputs :
         \/ /\ in.kind = "features"
            /\ voice' = [pc |-> "done", path |-> "try", input |-> in.kind,
                         result |-> VoiceMetricsOf(in.f)]
         \/ /\ in.kind \in {"raises", "unopenable"}
            /\ voice' = [pc |-> "done", path |-> "except", input |-> in.kind,
                         result |-> VoiceFallback]
         \/ /\ in.kind = "empty"
            /\ voice' = [pc |-> "raised", path |-> "none", input |-> in.kind,
                         result |-> VoiceFallback]
    /\ UNCHANGED <<eye, posture, speech, inton, agg, request, transcription, server>>

\* VoiceAnalyzer.analyze, whole: the try body or the except branch.
VoiceAnalyze ==
    /\ voice.pc = "start"
    /\ \E in \in VoiceInputs :
         \/ /\ in.kind = "features"
            /\ voice' = [pc |-> "done", path |-> "try", input |-> in.kind,
                         result |-> VoiceMetricsOf(in.f)]
         \/ /\ in.kind # "features"
            /\ voice' = [pc |-> "done", path |-> "except", input |-> in.kind,
                         result |-> VoiceFallback]
    /\ UNCHANGED <<eye, posture, speech, inton, agg, request, transcription, server>>

----------------------------------------------------------------------------
(* IntonationAnalyzer (analyzers/voice/intonation_analyzer.py)             *)

\* The pitch list of lines 24-29: the frames with pitch > 0.
PositivePitch(track) == SelectSeq(track, LAMBDA hz : hz > 0)

\* What the extractor yields for a clip that loaded: the pitch track with
\* the coefficient of variation std/mean of its kept values (thousandths),
\* the number of RMS frames with their coefficient of variation
\* (thousandths) and the number of peaks find_peaks returns.
IntonationFeatures ==
    { f \in [ track : PitchTracks, pitch_cv : {0, 149, 200, 600},
              rms_len : {1, 60}, energy_cv : {0, 99, 400}, peaks : {0, 2, 6} ] :
        f.rms_len = 1 => (f.peaks = 0 /\ f.energy_cv = 0) }

\* As VoiceInputs: "unopenable" is librosa.load raising (line 16).
IntonationInputs ==
    { [kind |-> "raises"], [kind |-> "empty"], [kind |-> "unopenable"] }
        \cup { [kind |-> "features", f |-> f] : f \in IntonationFeatures }

\* The record of the "no pitch" return and of the except branch.
IntonationDefaults(message) ==
    [ pitch_variation |-> Rat(3, 10), stress_pattern_score |-> Rat(5, 10),
      monotone_score |-> Rat(7, 10), energy_variation |-> Rat(4, 10),
      prosody_score |-> Rat(5, 10), feedback |-> <<message>> ]

\* The feedback rules of IntonationAnalyzer.analyze (lines 83-96).
IntonationFeedback(monotone, pitch_variation, energy_variation, stress, prosody) ==
    LET f1 == IF RatLess(Rat(6, 10), monotone) THEN <<"monotone">> ELSE <<>>
        f2 == IF RatLess(pitch_variation, Rat(3, 10))
              THEN Append(f1, "pitch_variation_limited") ELSE f1
        f3 == IF RatLess(energy_variation, Rat(3, 10))
              THEN Append(f2, "energy_constant") ELSE f2
        f4 == IF RatLess(stress, Rat(5, 10)) THEN Append(f3, "stress_patterns") ELSE f3
        f5 == IF RatLess(prosody, Rat(5, 10)) THEN Append(f4, "prosody_improve") ELSE f4
    IN  IF f5 = <<>> THEN <<"intonation_excellent">> ELSE f5

\* The try body after a non-empty pitch list (lines 42-105), in thousandths
\* until the peak density brings in the denominator len(rms).
IntonationMetricsOf(f) ==
    LET pv == Min(1000, f.pitch_cv * 2)
        ev == IF f.rms_len > 1 THEN Min(1000, f.energy_cv * 3) ELSE 400
        stress == Rat(Min(f.peaks * 10, f.rms_len), f.rms_len)
        prosody == Rat(pv * 4 * stress.den + ev * 3 * stress.den + 3 * 1000 * stress.num,
                       10 * 1000 * stress.den)
    IN  [ pitch_variation |-> Rat(pv, 1000), stress_pattern_score |-> stress,
          monotone_score |-> Rat(1000 - pv, 1000), energy_variation |-> Rat(ev, 1000),
          prosody_score |-> prosody,
          feedback |-> IntonationFeedback(Rat(1000 - pv, 1000), Rat(pv, 1000),
                                          Rat(ev, 1000), stress, prosody) ]

IntonationInit ==
    [pc |-> "start", path |-> "none", input |-> "none",
     result |-> IntonationDefaults("none")]

\* IntonationAnalyzer.analyze, whole: the early return without pitch, the
\* try body, or the except branch.
IntonationAnalyze ==
    /\ inton.pc = "start"
    /\ \E in \in IntonationInputs :
         \/ /\ in.kind = "features"
            /\ PositivePitch(in.f.track) = <<>>
            /\ inton' = [pc |-> "done", path |-> "no_pitch", input |-> in.kind,
                         result |-> IntonationDefaults("could_not_extract_pitch")]
         \/ /\ in.kind = "features"
            /\ PositivePitch(in.f.track) # <<>>
            /\ inton' = [pc |-> "done", path |-> "try", input |-> in.kind,
                         result |-> IntonationMetricsOf(in.f)]
         \/ /\ in.kind # "features"
            /\ inton' = [pc |-> "done", path |-> "except", input |-> in.kind,
                         result |-> IntonationDefaults("could_not_analyze_intonation")]
    /\ UNCHANGED <<eye, posture, speech, voice, agg, request, transcription, server>>

----------------------------------------------------------------------------
(* SpeechAnalyzer (analyzers/voice/speech_analyzer.py)                     *)
(* A string is a sequence of one-character strings.                        *)

\* Most words of a generated transcript.
MaxWords == 4

UpperCase == <<"A", "B", "C", "D", "E", "F", "G", "H", "I", "J", "K", "L", "M",
               "N", "O", "P", "Q", "R", "S", "T", "U", "V", "W", "X", "Y", "Z">>

LowerCase == <<"a", "b", "c", "d", "e", "f", "g", "h", "i", "j", "k", "l", "m",
               "n", "o", "p", "q", "r", "s", "t", "u", "v", "w", "x", "y", "z">>

LowerChar(c) ==
    IF \E k \in 1..26 : UpperCase[k] = c
    THEN LowerCase[CHOOSE k \in 1..26 : UpperCase[k] = c]
    ELSE c

\* str.lower()
Lower(s) == [k \in 1..Len(s) |-> LowerChar(s[k])]

IsSpace(c) == c \in {" ", "\t", "\n"}

\* str.split(): the maximal runs of non-whitespace characters, in order.
RECURSIVE SplitFrom(_, _, _)
SplitFrom(s, k, word) ==
    IF k > Len(s)
    THEN IF word = <<>> THEN <<>> ELSE <<word>>
    ELSE IF IsSpace(s[k])
         THEN IF word = <<>> THEN SplitFrom(s, k + 1, <<>>)
              ELSE <<word>> \o SplitFrom(s, k + 1, <<>>)
         ELSE SplitFrom(s, k + 1, Append(word, s[k]))

Split(s) == SplitFrom(s, 1, <<>>)

\* Whether sub occurs in s at position k.
MatchAt(s, sub, k) ==
    /\ k + Len(sub) - 1 <= Len(s)
    /\ \A j \in 1..Len(sub) : s[k + j - 1] = sub[j]

\* str.count(sub): occurrences found scanning left to right, the scan
\* resuming after the end of each match (non-overlapping occurrences).
RECURSIVE CountFrom(_, _, _)
CountFrom(s, sub, k) ==
    IF k + Len(sub) - 1 > Len(s) THEN 0
    ELSE IF MatchAt(s, sub, k)
         THEN 1 + CountFrom(s, sub, k + Len(sub))
         ELSE CountFrom(s, sub, k + 1)

PyCount(s, sub) == CountFrom(s, sub, 1)

\* self.filler_words
filler_words ==
    << <<"u", "m">>,
       <<"u", "h">>,
       <<"e", "r">>,
       <<"a", "h">>,
       <<"l", "i", "k", "e">>,
       <<"y", "o", "u", " ", "k", "n", "o", "w">>,
       <<"s", "o">>,
       <<"w", "e", "l", "l">>,
       <<"a", "c", "t", "u", "a", "l", "l", "y">>,
       <<"b", "a", "s", "i", "c", "a", "l", "l", "y">> >>

\* detect_filler_words without text.lower().
detect_filler_words_cased(text) ==
    SumSeq([k \in 1..Len(filler_words) |-> PyCount(text, filler_words[k])])

\* detect_filler_words
detect_filler_words(text) ==
    LET text_lower == Lower(text)
        counts == [k \in 1..Len(filler_words) |-> PyCount(text_lower, filler_words[k])]
    IN  SumSeq(counts)

\* calculate_speech_rate: (word_count / duration_seconds) * 60, or 0.
calculate_speech_rate(text, duration_seconds) ==
    IF duration_seconds > 0
    THEN Rat(Len(Split(text)) * 60, duration_seconds)
    ELSE Rat(0, 1)

\* The words generated transcripts are made of; the empty word gives runs
\* of spaces and leading or trailing spaces.
Vocabulary ==
    { <<>>,
      <<"U", "m", ",">>,
      <<"s", "o">>,
      <<"t", "h", "e">>,
      <<"T", "h", "e">>,
      <<"l", "i", "k", "e", "r">>,
      <<"y", "o", "u">>,
      <<"k", "n", "o", "w">> }

\* The words joined by single spaces.
RECURSIVE JoinWords(_)
JoinWords(ws) ==
    IF ws = <<>> THEN <<>>
    ELSE IF Len(ws) = 1 THEN ws[1]
    ELSE ws[1] \o <<" ">> \o JoinWords(Tail(ws))

\* "um, like, you know what I mean"
FillerExample ==
    <<"u", "m", ",", " ", "l", "i", "k", "e", ",", " ", "y", "o", "u", " ", "k", "n", "o", "w", " ", "w", "h", "a", "t", " ", "I", " ", "m", "e", "a", "n">>

\* "the the cat"
StutterExample ==
    <<"t", "h", "e", " ", "t", "h", "e", " ", "c", "a", "t">>

\* What the transcription collaborator may return ("" on failure); the last
\* one is "so the so you you", a repeat at distance 2 followed by an
\* adjacent repeat.
Transcripts ==
    { JoinWords(ws) : ws \in SeqsUpTo(Vocabulary, MaxWords) }
        \cup {FillerExample, StutterExample}
        \cup {JoinWords(<< <<"s", "o">>, <<"t", "h", "e">>, <<"s", "o">>,
                           <<"y", "o", "u">>, <<"y", "o", "u">> >>)}

\* len(y) / sr, in seconds (0: an empty waveform).
DurationValues == {0, 30}

\* How split_on_silence ends: the number of chunks, or -1 for an exception.
ChunkValues == {-1, 0, 3}

\* The record of the except branch (lines 145-155).  In SpeechInit below,
\* transcribed (whether transcribe_audio has returned), chunks (what
\* split_on_silence gave) and opened (whether librosa.load returned a
\* waveform) are the observer's, and so is spans: the first and last token
\* position (from 0) of every stutter detect_stutters has counted.
SpeechFallback ==
    [ stutter_count |-> 0, filler_word_count |-> 0, pause_count |-> 0,
      total_disfluencies |-> 0, disfluency_rate |-> Rat(0, 1),
      speech_rate |-> Rat(0, 1), feedback |-> <<"could_not_analyze_speech">> ]

SpeechInit ==
    [ pc |-> "start", path |-> "none", duration_seconds |-> 0, text |-> <<>>,
      filler_count |-> 0, words |-> <<>>, i |-> 0, stutter_count |-> 0,
      transcribed |-> FALSE, chunks |-> -1, opened |-> FALSE, spans |-> <<>>,
      result |-> SpeechFallback ]

\* detect_pauses: max(0, len(chunks) - 1), or 0 when segmentation raises.
detect_pauses(chunks) == IF chunks = -1 THEN 0 ELSE Max(0, chunks - 1)

\* The feedback rules of SpeechAnalyzer.analyze (lines 118-133).
SpeechFeedback(stutter_count, filler_count, disfluency_rate, speech_rate) ==
    LET f1 == IF stutter_count > 0 THEN <<"stutters">> ELSE <<>>
        f2 == IF filler_count > 10 THEN Append(f1, "fillers_replace")
              ELSE IF filler_count > 5 THEN Append(f1, "fillers_reduce") ELSE f1
        f3 == IF RatLess(Rat(5, 1), disfluency_rate)
              THEN Append(f2, "disfluency_rate_high") ELSE f2
        f4 == IF RatLess(Rat(180, 1), speech_rate) THEN Append(f3, "too_fast")
              ELSE IF RatLess(speech_rate, Rat(120, 1)) /\ RatLess(Rat(0, 1), speech_rate)
                   THEN Append(f3, "too_slow") ELSE f3
    IN  IF f4 = <<>> THEN <<"speech_great">> ELSE f4

\* y, sr = librosa.load(audio_path, sr=None): a waveform, or an exception,
\* which the except branch turns into the fallback record.
SpeechLoad ==
    /\ speech.pc = "start"
    /\ \/ \E d \in DurationValues :
            speech' = [speech EXCEPT !.pc = "loaded", !.duration_seconds = d,
                                       !.opened = TRUE]
       \/ speech' = [speech EXCEPT !.pc = "done", !.path = "except",
                                   !.result = SpeechFallback]
    /\ UNCHANGED <<eye, posture, voice, inton, agg, request, transcription, server>>

\* SpeechTranscribe with an empty transcript treated as an error, which the
\* except branch turns into the fallback record.
SpeechTranscribeEmptyRaises ==
    /\ speech.pc = "loaded"
    /\ \E text \in Transcripts :
         \/ /\ text # <<>>
            /\ speech' = [speech EXCEPT !.pc = "stutters", !.text = text,
                             !.transcribed = TRUE,
                             !.filler_count = detect_filler_words(text),
                             !.words = Split(Lower(text)), !.i = 0,
                             !.stutter_count = 0]
         \/ /\ text = <<>>
            /\ speech' = [speech EXCEPT !.pc = "done", !.path = "except",
                             !.text = text, !.transcribed = TRUE,
                             !.result = SpeechFallback]
    /\ UNCHANGED <<eye, posture, voice, inton, agg, request, transcription, server>>

\* text = self.transcribe_audio(audio_path), the filler count, and the
\* entry into detect_stutters (lines 104-108, 42-44).
SpeechTranscribe ==
    /\ speech.pc = "loaded"
    /\ \E text \in Transcripts :
         \/ /\ text # <<>>
            /\ speech' = [speech EXCEPT !.pc = "stutters", !.text = text,
                             !.transcribed = TRUE,
                             !.filler_count = detect_filler_words(text),
                             !.words = Split(Lower(text)), !.i = 0,
                             !.stutter_count = 0]
         \/ /\ text = <<>>
            /\ speech' = [speech EXCEPT !.pc = "pauses", !.text = text,
                             !.transcribed = TRUE,
                             !.filler_count = 0, !.stutter_count = 0]
    /\ UNCHANGED <<eye, posture, voice, inton, agg, request, transcription, server>>

\* StutterStep with the index advancing by 1 after an adjacent repeat.
StutterStepAdvanceOne ==
    /\ speech.pc = "stutters"
    /\ speech.i < Len(speech.words) - 1
    /\ LET w == speech.words
           k == speech.i + 1
       IN  \/ /\ w[k] = w[k + 1] /\ Len(w[k]) > 2
              /\ speech' = [speech EXCEPT !.stutter_count = @ + 1, !.i = @ + 1]
           \/ /\ ~(w[k] = w[k + 1] /\ Len(w[k]) > 2)
              /\ speech.i < Len(w) - 2 /\ w[k] = w[k + 2] /\ Len(w[k]) <= 3
              /\ speech' = [speech EXCEPT !.stutter_count = @ + 1, !.i = @ + 3]
           \/ /\ ~(w[k] = w[k + 1] /\ Len(w[k]) > 2)
              /\ ~(speech.i < Len(w) - 2 /\ w[k] = w[k + 2] /\ Len(w[k]) <= 3)
              /\ speech' = [speech EXCEPT !.i = @ + 1]
    /\ UNCHANGED <<eye, posture, voice, inton, agg, request, transcription, server>>

\* StutterStep with the index advancing by 2 after a repeat at distance 2.
StutterStepShortSkip ==
    /\ speech.pc = "stutters"
    /\ speech.i < Len(speech.words) - 1
    /\ LET w == speech.words
           k == speech.i + 1
       IN  \/ /\ w[k] = w[k + 1] /\ Len(w[k]) > 2
              /\ speech' = [speech EXCEPT !.stutter_count = @ + 1, !.i = @ + 2,
                     !.spans = Append(@, [first |-> speech.i, last |-> speech.i + 1])]
           \/ /\ ~(w[k] = w[k + 1] /\ Len(w[k]) > 2)
              /\ speech.i < Len(w) - 2 /\ w[k] = w[k + 2] /\ Len(w[k]) <= 3
              /\ speech' = [speech EXCEPT !.stutter_count = @ + 1, !.i = @ + 2,
                     !.spans = Append(@, [first |-> speech.i, last |-> speech.i + 2])]
           \/ /\ ~(w[k] = w[k + 1] /\ Len(w[k]) > 2)
              /\ ~(speech.i < Len(w) - 2 /\ w[k] = w[k + 2] /\ Len(w[k]) <= 3)
              /\ speech' = [speech EXCEPT !.i = @ + 1]
    /\ UNCHANGED <<eye, posture, voice, inton, agg, request, transcription, server>>

\* One iteration of the while loop of detect_stutters (lines 45-55); words
\* is indexed from 1 here, i from 0 as in the code.
StutterStep ==
    /\ speech.pc = "stutters"
    /\ speech.i < Len(speech.words) - 1
    /\ LET w == speech.words
           k == speech.i + 1
       IN  \/ /\ w[k] = w[k + 1] /\ Len(w[k]) > 2
              /\ speech' = [speech EXCEPT !.stutter_count = @ + 1, !.i = @ + 2,
                     !.spans = Append(@, [first |-> speech.i, last |-> speech.i + 1])]
           \/ /\ ~(w[k] = w[k + 1] /\ Len(w[k]) > 2)
              /\ speech.i < Len(w) - 2 /\ w[k] = w[k + 2] /\ Len(w[k]) <= 3
              /\ speech' = [speech EXCEPT !.stutter_count = @ + 1, !.i = @ + 3,
                     !.spans = Append(@, [first |-> speech.i, last |-> speech.i + 2])]
           \/ /\ ~(w[k] = w[k + 1] /\ Len(w[k]) > 2)
              /\ ~(speech.i < Len(w) - 2 /\ w[k] = w[k + 2] /\ Len(w[k]) <= 3)
              /\ speech' = [speech EXCEPT !.i = @ + 1]
    /\ UNCHANGED <<eye, posture, voice, inton, agg, request, transcription, server>>

\* The loop condition fails: return stutter_count.
StutterReturn ==
    /\ speech.pc = "stutters"
    /\ ~(speech.i < Len(speech.words) - 1)
    /\ speech' = [speech EXCEPT !.pc = "pauses"]
    /\ UNCHANGED <<eye, posture, voice, inton, agg, request, transcription, server>>

\* pause_count = self.detect_pauses(audio_path) and the rest of the try
\* body (lines 109-143).
SpeechFinish ==
    /\ speech.pc = "pauses"
    /\ \E chunks \in ChunkValues :
         LET total_disfluencies == speech.filler_count + speech.stutter_count
             \* duration_minutes = duration_seconds / 60
             disfluency_rate == IF speech.duration_seconds > 0
                                THEN Rat(total_disfluencies * 60, speech.duration_seconds)
                                ELSE Rat(0, 1)
             speech_rate == IF speech.text # <<>>
                            THEN calculate_speech_rate(speech.text, speech.duration_seconds)
                            ELSE Rat(0, 1)
         IN  speech' = [speech EXCEPT !.pc = "done", !.path = "try",
                !.chunks = chunks,
                !.result = [ stutter_count |-> speech.stutter_count,
                             filler_word_count |-> speech.filler_count,
                             pause_count |-> detect_pauses(chunks),
                             total_disfluencies |-> total_disfluencies,
                             disfluency_rate |-> disfluency_rate,
                             speech_rate |-> speech_rate,
                             feedback |-> SpeechFeedback(speech.stutter_count,
                                             speech.filler_count, disfluency_rate,
                                             speech_rate) ]]
    /\ UNCHANGED <<eye, posture, voice, inton, agg, request, transcription, server>>

SpeechNext ==
    SpeechLoad \/ SpeechTranscribe \/ StutterStep \/ StutterReturn \/ SpeechFinish

InitSpeech ==
    /\ speech = SpeechInit /\ eye = Idle /\ posture = Idle
    /\ voice = Idle /\ inton = Idle /\ agg = Idle
    /\ request = Idle /\ transcription = Idle /\ server = Idle

SpecSpeech == InitSpeech /\ [][SpeechNext]_vars

----------------------------------------------------------------------------
(* The metric aggregator (app/models.py): CVMetrics, VoiceMetrics and      *)
(* AnalysisMetrics.  Ratio fields are in thousandths, eye_contact_         *)
(* percentage in hundredths of a percent, gaze_shifts_per_minute in tenths *)
(* and disfluency_rate in hundredths per minute.                           *)

\* The integer nearest to n / d (d > 0), a tie going to the even one, as
\* round() and the format specs of the f-strings do.
RoundHalfEven(n, d) ==
    LET q == n \div d
        r == n % d
    IN  IF 2 * r < d THEN q
        ELSE IF 2 * r > d THEN q + 1
        ELSE IF q % 2 = 0 THEN q ELSE q + 1

\* The record every analyzer returns when its clip holds no signal: the 0.7
\* posture defaults, the no-face eye-contact record and the three audio
\* fallback records.
NeutralDefaults ==
    [ posture |-> [ average_shoulder_alignment |-> 700, average_back_straightness |-> 700,
                    stability_score |-> 700, confidence_score |-> 700 ],
      eye_contact |-> [ eye_contact_percentage |-> 0, average_eye_contact_duration |-> 0,
                        gaze_shifts_per_minute |-> 0, direct_eye_contact_score |-> 0 ],
      voice_quality |-> [ average_volume |-> -20, volume_consistency |-> 700,
                          clarity_score |-> 700, pitch_range |-> 50,
                          average_pitch |-> 150, voice_stability |-> 700 ],
      speech_disfluencies |-> [ stutter_count |-> 0, filler_word_count |-> 0,
                                pause_count |-> 0, total_disfluencies |-> 0,
                                disfluency_rate |-> 0, speech_rate |-> 0 ],
      intonation |-> [ pitch_variation |-> 300, stress_pattern_score |-> 500,
                       monotone_score |-> 700, energy_variation |-> 400,
                       prosody_score |-> 500 ] ]

\* The metrics objects the aggregator is followed on: every field that a
\* feedback rule reads takes a value on its threshold and one just past it,
\* the fields only the scores read are all low or all high, and the rest
\* stay at their neutral value.
MetricsGrid ==
    { [ posture |-> [ average_shoulder_alignment |-> a, average_back_straightness |-> o,
                      stability_score |-> s, confidence_score |-> o ],
        eye_contact |-> [ eye_contact_percentage |-> p, average_eye_contact_duration |-> 0,
                          gaze_shifts_per_minute |-> g, direct_eye_contact_score |-> o ],
        voice_quality |-> [ average_volume |-> -20, volume_consistency |-> vc,
                            clarity_score |-> cl, pitch_range |-> 50,
                            average_pitch |-> 150, voice_stability |-> o ],
        speech_disfluencies |-> [ stutter_count |-> 0, filler_word_count |-> fw,
                                  pause_count |-> 0, total_disfluencies |-> fw,
                                  disfluency_rate |-> dr, speech_rate |-> 0 ],
        intonation |-> [ pitch_variation |-> 300, stress_pattern_score |-> 500,
                         monotone_score |-> m, energy_variation |-> 400,
                         prosody_score |-> pr ] ] :
        a \in {699, 700}, s \in {599, 600}, p \in {5994, 6000}, g \in {200, 201},
        vc \in {699, 700}, cl \in {699, 700}, dr \in {500, 12345}, fw \in {10, 11},
        m \in {600, 601}, pr \in {599, 600}, o \in {0, 1000} }

\* A feedback message: its text, and the number an f-string puts in it (0
\* when the text holds none).
Message(text, value) == [msg |-> text, value |-> value]

\* 0.3 alignment + 0.3 straightness + 0.2 stability + 0.2 confidence, times 10000.
PostureBlend(m) ==
    3 * m.posture.average_shoulder_alignment + 3 * m.posture.average_back_straightness
        + 2 * m.posture.stability_score + 2 * m.posture.confidence_score

\* 0.6 of percentage / 100 + 0.4 of the direct score, times 100 (score
\* points times 1000).
EyeContactBlend(m) ==
    6 * m.eye_contact.eye_contact_percentage + 40 * m.eye_contact.direct_eye_contact_score

\* 0.3 clarity + 0.3 consistency + 0.4 stability (score points times 100).
VoiceBlend(m) ==
    3 * m.voice_quality.clarity_score + 3 * m.voice_quality.volume_consistency
        + 4 * m.voice_quality.voice_stability

\* 100 - disfluency_rate * 10 with no lower limit (score points times 10).
disfluency_score_unclamped(m) == 1000 - m.speech_disfluencies.disfluency_rate

\* disfluency_score = max(0, 100 - disfluency_rate * 10), score points times 10.
disfluency_score(m) == Max(0, 1000 - m.speech_disfluencies.disfluency_rate)

\* 0.4 (1 - monotone) + 0.6 prosody (score points times 100).
IntonationBlend(m) ==
    4 * (1000 - m.intonation.monotone_score) + 6 * m.intonation.prosody_score

\* eye_contact_score / 100 of calculate_overall_score (lines 174-177) on an
\* eye-contact record whose fields are rationals:
\* percentage / 100 * 0.6 + direct * 0.4.
eye_contact_composite(r) ==
    Rat(6 * r.eye_contact_percentage.num * r.direct_eye_contact_score.den
        + 4 * r.direct_eye_contact_score.num * r.eye_contact_percentage.den * 100,
        10 * r.eye_contact_percentage.den * 100 * r.direct_eye_contact_score.den)

\* The weights dictionary of calculate_overall_score, in hundredths.
weights ==
    [ posture |-> 15, eye_contact |-> 20, voice_quality |-> 20,
      speech_disfluencies |-> 20, intonation |-> 25 ]

\* The five locals of calculate_overall_score (lines 167-191), each in
\* thousandths of a score point.
overall_sub_scores(m) ==
    [ posture_score |-> 10 * PostureBlend(m),
      eye_contact_score |-> EyeContactBlend(m),
      voice_score |-> 10 * VoiceBlend(m),
      disfluency_score |-> 100 * disfluency_score(m),
      intonation_score |-> 10 * IntonationBlend(m) ]

\* AnalysisMetrics.calculate_overall_score, in hundredths of a point:
\* round(overall, 2).  The sum is formed times 100000.
calculate_overall_score(m) ==
    LET s == overall_sub_scores(m)
    IN  RoundHalfEven(weights.posture * s.posture_score
                      + weights.eye_contact * s.eye_contact_score
                      + weights.voice_quality * s.voice_score
                      + weights.speech_disfluencies * s.disfluency_score
                      + weights.intonation * s.intonation_score, 1000)

\* cv_sub_scores with the eye-contact score taken from the percentage alone.
cv_sub_scores_percentage_only(m) ==
    [ posture_score |->
          10 * (3 * m.posture.average_shoulder_alignment
                + 3 * m.posture.average_back_straightness
                + 2 * m.posture.stability_score + 2 * m.posture.confidence_score),
      eye_contact_score |-> 10 * m.eye_contact.eye_contact_percentage ]

\* The two locals of calculate_cv_score, which repeats the expressions of
\* calculate_overall_score in its own body (lines 64-74); thousandths of a
\* score point.
cv_sub_scores(m) ==
    [ posture_score |->
          10 * (3 * m.posture.average_shoulder_alignment
                + 3 * m.posture.average_back_straightness
                + 2 * m.posture.stability_score + 2 * m.posture.confidence_score),
      eye_contact_score |->
          6 * m.eye_contact.eye_contact_percentage
          + 40 * m.eye_contact.direct_eye_contact_score ]

\* CVMetrics.calculate_cv_score, in hundredths of a point: 40% posture and
\* 60% eye contact, round(cv_score, 2).  The sum is formed times 10000.
calculate_cv_score(m) ==
    LET s == cv_sub_scores(m)
    IN  RoundHalfEven(4 * s.posture_score + 6 * s.eye_contact_score, 100)

\* The three locals of calculate_voice_score, again written out in its own
\* body (lines 107-119); thousandths of a score point.
voice_sub_scores(m) ==
    [ voice_score |->
          10 * (3 * m.voice_quality.clarity_score
                + 3 * m.voice_quality.volume_consistency
                + 4 * m.voice_quality.voice_stability),
      disfluency_score |->
          Max(0, 100 * 1000 - m.speech_disfluencies.disfluency_rate * 100),
      intonation_score |->
          10 * (4 * (1000 - m.intonation.monotone_score)
                + 6 * m.intonation.prosody_score) ]

\* VoiceMetrics.calculate_voice_score, in hundredths of a point: 35% voice
\* quality, 35% disfluencies, 30% intonation, round(voice_overall, 2).  The
\* sum is formed times 100000.
calculate_voice_score(m) ==
    LET s == voice_sub_scores(m)
    IN  RoundHalfEven(35 * s.voice_score + 35 * s.disfluency_score
                      + 30 * s.intonation_score, 1000)

\* The ten rules of AnalysisMetrics.generate_feedback, in order (lines 205-235).
generate_feedback_rules(m) ==
    LET f1 == IF m.posture.average_shoulder_alignment < 700
              THEN <<Message("shoulders_aligned", 0)>> ELSE <<>>
        f2 == IF m.posture.stability_score < 600
              THEN Append(f1, Message("stable_posture", 0)) ELSE f1
        f3 == IF m.eye_contact.eye_contact_percentage < 6000
              THEN Append(f2, Message("eye_contact_at",
                       RoundHalfEven(m.eye_contact.eye_contact_percentage, 10)))
              ELSE f2
        f4 == IF m.eye_contact.gaze_shifts_per_minute > 200
              THEN Append(f3, Message("gaze_shifts_frequent", 0)) ELSE f3
        f5 == IF m.voice_quality.volume_consistency < 700
              THEN Append(f4, Message("volume_varies", 0)) ELSE f4
        f6 == IF m.voice_quality.clarity_score < 700
              THEN Append(f5, Message("enunciate", 0)) ELSE f5
        f7 == IF m.speech_disfluencies.disfluency_rate > 500
              THEN Append(f6, Message("disfluencies_per_minute",
                       RoundHalfEven(m.speech_disfluencies.disfluency_rate, 10)))
              ELSE f6
        f8 == IF m.speech_disfluencies.filler_word_count > 10
              THEN Append(f7, Message("filler_words",
                       m.speech_disfluencies.filler_word_count))
              ELSE f7
        f9 == IF m.intonation.monotone_score > 600
              THEN Append(f8, Message("monotone", 0)) ELSE f8
    IN  IF m.intonation.prosody_score < 600
        THEN Append(f9, Message("vary_intonation", 0)) ELSE f9

\* generate_feedback without the closing "if not feedback" message.
generate_feedback_no_success(m) == generate_feedback_rules(m)

\* AnalysisMetrics.generate_feedback (lines 203-240).
generate_feedback(m) ==
    IF generate_feedback_rules(m) = <<>>
    THEN <<Message("great_job", 0)>>
    ELSE generate_feedback_rules(m)

\* CVMetrics.generate_cv_feedback (lines 80-96).
generate_cv_feedback(m) ==
    LET f1 == IF m.posture.average_shoulder_alignment < 700
              THEN <<Message("shoulders_aligned", 0)>> ELSE <<>>
        f2 == IF m.posture.stability_score < 600
              THEN Append(f1, Message("stable_posture", 0)) ELSE f1
        f3 == IF m.eye_contact.eye_contact_percentage < 6000
              THEN Append(f2, Message("eye_contact_at",
                       RoundHalfEven(m.eye_contact.eye_contact_percentage, 10)))
              ELSE f2
        f4 == IF m.eye_contact.gaze_shifts_per_minute > 200
              THEN Append(f3, Message("gaze_shifts_frequent", 0)) ELSE f3
    IN  IF f4 = <<>> THEN <<Message("great_visual_presence", 0)>> ELSE f4

\* VoiceMetrics.generate_voice_feedback (lines 125-145).
generate_voice_feedback(m) ==
    LET f1 == IF m.voice_quality.volume_consistency < 700
              THEN <<Message("volume_varies", 0)>> ELSE <<>>
        f2 == IF m.voice_quality.clarity_score < 700
              THEN Append(f1, Message("enunciate", 0)) ELSE f1
        f3 == IF m.speech_disfluencies.disfluency_rate > 500
              THEN Append(f2, Message("disfluencies_per_minute",
                       RoundHalfEven(m.speech_disfluencies.disfluency_rate, 10)))
              ELSE f2
        f4 == IF m.speech_disfluencies.filler_word_count > 10
              THEN Append(f3, Message("filler_words",
                       m.speech_disfluencies.filler_word_count))
              ELSE f3
        f5 == IF m.intonation.monotone_score > 600
              THEN Append(f4, Message("monotone", 0)) ELSE f4
        f6 == IF m.intonation.prosody_score < 600
              THEN Append(f5, Message("vary_intonation", 0)) ELSE f5
    IN  IF f6 = <<>> THEN <<Message("excellent_voice", 0)>> ELSE f6

\* An AnalysisMetrics object just built, nothing yet asked of it.
AggInit(m) ==
    [ pc |-> "ready", metrics |-> m,
      called |-> [score |-> FALSE, feedback |-> FALSE, cv |-> FALSE, voice |-> FALSE,
                  cv_score |-> FALSE, voice_score |-> FALSE],
      overall_score |-> 0, feedback |-> <<>>, cv_feedback |-> <<>>,
      voice_feedback |-> <<>>, cv_score |-> 0, voice_score |-> 0,
      overall_locals |-> [ posture_score |-> 0, eye_contact_score |-> 0,
                           voice_score |-> 0, disfluency_score |-> 0,
                           intonation_score |-> 0 ],
      cv_locals |-> [posture_score |-> 0, eye_contact_score |-> 0],
      voice_locals |-> [ voice_score |-> 0, disfluency_score |-> 0,
                         intonation_score |-> 0 ] ]

\* A call of metrics.calculate_overall_score(); the method assigns to no
\* attribute of self.  overall_locals keeps its locals for the observer, as
\* cv_locals and voice_locals do for the two other scores.
AggCalculateOverallScore ==
    /\ agg.pc = "ready"
    /\ agg' = [agg EXCEPT !.overall_score = calculate_overall_score(agg.metrics),
                          !.overall_locals = overall_sub_scores(agg.metrics),
                          !.called.score = TRUE]
    /\ UNCHANGED <<eye, posture, speech, voice, inton, request, transcription, server>>

\* AggGenerateFeedback storing the percentage it formats (one decimal) back
\* into the metrics object.
AggGenerateFeedbackWritesBack ==
    /\ agg.pc = "ready"
    /\ agg' = [agg EXCEPT !.feedback = generate_feedback(agg.metrics),
                          !.called.feedback = TRUE,
                          !.metrics.eye_contact.eye_contact_percentage =
                              10 * RoundHalfEven(@, 10)]
    /\ UNCHANGED <<eye, posture, speech, voice, inton, request, transcription, server>>

\* A call of metrics.generate_feedback(); the list it builds is a fresh local.
AggGenerateFeedback ==
    /\ agg.pc = "ready"
    /\ agg' = [agg EXCEPT !.feedback = generate_feedback(agg.metrics),
                          !.called.feedback = TRUE]
    /\ UNCHANGED <<eye, posture, speech, voice, inton, request, transcription, server>>

\* A call of generate_cv_feedback() on the CVMetrics of the same records.
AggGenerateCvFeedback ==
    /\ agg.pc = "ready"
    /\ agg' = [agg EXCEPT !.cv_feedback = generate_cv_feedback(agg.metrics),
                          !.called.cv = TRUE]
    /\ UNCHANGED <<eye, posture, speech, voice, inton, request, transcription, server>>

\* A call of generate_voice_feedback() on the VoiceMetrics of the same records.
AggGenerateVoiceFeedback ==
    /\ agg.pc = "ready"
    /\ agg' = [agg EXCEPT !.voice_feedback = generate_voice_feedback(agg.metrics),
                          !.called.voice = TRUE]
    /\ UNCHANGED <<eye, posture, speech, voice, inton, request, transcription, server>>

AggNext ==
    \/ AggCalculateOverallScore \/ AggGenerateFeedback
    \/ AggGenerateCvFeedback \/ AggGenerateVoiceFeedback

InitAgg ==
    /\ \E m \in MetricsGrid \cup {NeutralDefaults} : agg = AggInit(m)
    /\ eye = Idle /\ posture = Idle /\ speech = Idle /\ voice = Idle /\ inton = Idle
    /\ request = Idle /\ transcription = Idle /\ server = Idle

SpecAgg == InitAgg /\ [][AggNext]_vars

\* The metrics objects the three composite scores are followed on: every
\* field a score reads takes both ends of its declared range, the eye-contact
\* percentage also a value inside it, and disfluency_rate values on both
\* sides of the rate (10 per minute) at which max(0, ...) starts to act.
ScoreGrid ==
    { [ posture |-> [ average_shoulder_alignment |-> a, average_back_straightness |-> b,
                      stability_score |-> s, confidence_score |-> c ],
        eye_contact |-> [ eye_contact_percentage |-> p, average_eye_contact_duration |-> 0,
                          gaze_shifts_per_minute |-> 0, direct_eye_contact_score |-> d ],
        voice_quality |-> [ average_volume |-> -20, volume_consistency |-> vc,
                            clarity_score |-> cl, pitch_range |-> 50,
                            average_pitch |-> 150, voice_stability |-> vs ],
        speech_disfluencies |-> [ stutter_count |-> 0, filler_word_count |-> 0,
                                  pause_count |-> 0, total_disfluencies |-> 0,
                                  disfluency_rate |-> dr, speech_rate |-> 0 ],
        intonation |-> [ pitch_variation |-> 300, stress_pattern_score |-> 500,
                         monotone_score |-> m, energy_variation |-> 400,
                         prosody_score |-> pr ] ] :
        a \in {0, 1000}, b \in {0, 1000}, s \in {0, 1000}, c \in {0, 1000},
        p \in {0, 3333, 10000}, d \in {0, 1000},
        vc \in {0, 1000}, cl \in {0, 1000}, vs \in {0, 1000},
        dr \in {0, 999, 1001, 12345}, m \in {0, 1000}, pr \in {0, 1000} }

\* A call of calculate_cv_score() on the CVMetrics of the same records.
AggCalculateCvScore ==
    /\ agg.pc = "ready"
    /\ agg' = [agg EXCEPT !.cv_score = calculate_cv_score(agg.metrics),
                          !.cv_locals = cv_sub_scores(agg.metrics),
                          !.called.cv_score = TRUE]
    /\ UNCHANGED <<eye, posture, speech, voice, inton, request, transcription, server>>

\* A call of calculate_voice_score() on the VoiceMetrics of the same records.
AggCalculateVoiceScore ==
    /\ agg.pc = "ready"
    /\ agg' = [agg EXCEPT !.voice_score = calculate_voice_score(agg.metrics),
                          !.voice_locals = voice_sub_scores(agg.metrics),
                          !.called.voice_score = TRUE]
    /\ UNCHANGED <<eye, posture, speech, voice, inton, request, transcription, server>>

ScoresNext ==
    AggCalculateOverallScore \/ AggCalculateCvScore \/ AggCalculateVoiceScore

InitScores ==
    /\ \E m \in ScoreGrid : agg = AggInit(m)
    /\ eye = Idle /\ posture = Idle /\ speech = Idle /\ voice = Idle /\ inton = Idle
    /\ request = Idle /\ transcription = Idle /\ server = Idle

SpecScores == InitScores /\ [][ScoresNext]_vars

----------------------------------------------------------------------------
(* The five analyzers side by side: one behaviour follows one analyzer.    *)

AnalyzerNames == {"posture", "eye_contact", "voice_quality", "speech", "intonation"}

InitAnalyzers ==
    /\ agg = Idle
    /\ request = Idle /\ transcription = Idle /\ server = Idle
    /\ \E a \in AnalyzerNames :
         /\ posture = IF a = "posture" THEN PostureInit ELSE Idle
         /\ eye = IF a = "eye_contact" THEN EyeInit ELSE Idle
         /\ voice = IF a = "voice_quality" THEN VoiceInit ELSE Idle
         /\ speech = IF a = "speech" THEN SpeechInit ELSE Idle
         /\ inton = IF a = "intonation" THEN IntonationInit ELSE Idle

AnalyzersNext ==
    PostureNext \/ EyeNext \/ VoiceAnalyze \/ SpeechNext \/ IntonationAnalyze

SpecAnalyzers == InitAnalyzers /\ [][AnalyzersNext]_vars

----------------------------------------------------------------------------
(* The combined analysis request: routers/combined.py, analyze_full, with  *)
(* VideoProcessor.extract_audio.  The request is followed statement by     *)
(* statement; of each analyzer it keeps what the caller sees of it: a      *)
(* metrics record, the analyzer's fallback record, or an exception.        *)

\* The uploads a request is followed on.  is_video: the content type starts
\* with "video/"; upload_ok: reading the upload and writing the temporary
\* file succeed; opens: the file can be opened and decoded; has_audio: the
\* clip has an audio track (VideoFileClip.audio is not None); audio_write_ok:
\* write_audiofile succeeds; frame_fault: the video analyzer, if any, whose
\* frame conversion or detector raises inside its loop; audio_fault: loading
\* or processing the extracted audio raises inside the audio analyzers.
Uploads ==
    [ is_video : BOOLEAN, upload_ok : BOOLEAN, opens : BOOLEAN, has_audio : BOOLEAN,
      audio_write_ok : BOOLEAN, frame_fault : {"none", "posture", "eye_contact"},
      audio_fault : BOOLEAN ]

\* The five local variables that receive the analyzers' records (lines 51-55).
RecordNames == {"posture", "eye_contact", "voice_quality", "speech_disfluencies", "intonation"}

\* A request just received: nothing written, no record yet, no response.
\* tmp_file and audio_file say whether the file is on disk, tmp_file_path and
\* audio_path whether the local name is bound to it; cleanup is how the
\* finally block ended.
RequestInit(media) ==
    [ pc |-> "check_content_type", media |-> media,
      tmp_file |-> FALSE, tmp_file_path |-> FALSE,
      audio_path |-> FALSE, audio_file |-> FALSE,
      records |-> [r \in RecordNames |-> "none"],
      combined_metrics |-> FALSE, overall_score |-> FALSE, feedback |-> FALSE,
      cleanup |-> "none", status |-> 0, response |-> "none" ]

\* Lines 34-35: a content type that is not video/* is refused with 400
\* before anything is written.
RequestCheckContentType ==
    /\ request.pc = "check_content_type"
    /\ request' = IF request.media.is_video
                  THEN [request EXCEPT !.pc = "save_upload"]
                  ELSE [request EXCEPT !.pc = "responded", !.status = 400,
                                       !.response = "error"]
    /\ UNCHANGED <<eye, posture, speech, voice, inton, agg, transcription, server>>

\* Lines 38-44: the temporary file is created (delete=False), the upload is
\* read and written into it, and only then tmp_file_path is assigned.
RequestSaveUpload ==
    /\ request.pc = "save_upload"
    /\ request' = IF request.media.upload_ok
                  THEN [request EXCEPT !.pc = "extract_audio", !.tmp_file = TRUE,
                                       !.tmp_file_path = TRUE]
                  ELSE [request EXCEPT !.pc = "except", !.tmp_file = TRUE]
    /\ UNCHANGED <<eye, posture, speech, voice, inton, agg, transcription, server>>

\* VideoProcessor.extract_audio (video_processor.py lines 14-23): any failure
\* - the clip does not open, video.audio is None, write_audiofile fails - is
\* re-raised as Exception("Failed to extract audio").
ExtractAudioSucceeds(media) == media.opens /\ media.has_audio /\ media.audio_write_ok

\* Lines 47-48: audio_path is assigned only when extract_audio returns.
\* When write_audiofile fails (video_processor.py line 19) the file at the
\* mktemp path may or may not have been created already; extract_audio does
\* not remove it and the request never learns its name.
RequestExtractAudio ==
    /\ request.pc = "extract_audio"
    /\ \E left \in BOOLEAN :
         request' =
             IF ExtractAudioSucceeds(request.media)
             THEN [request EXCEPT !.pc = "posture", !.audio_path = TRUE,
                                  !.audio_file = TRUE]
             ELSE [request EXCEPT !.pc = "except",
                      !.audio_file = /\ request.media.opens
                                     /\ request.media.has_audio
                                     /\ left]
    /\ UNCHANGED <<eye, posture, speech, voice, inton, agg, transcription, server>>

\* What a video analyzer gives its caller: analyze has no try/except around
\* its frame loop, so an exception of frame conversion or of the detector
\* leaves analyze; otherwise a metrics record is returned.
VideoAnalyzerOutcome(name, media) ==
    IF ~media.opens \/ media.frame_fault = name THEN "raised" ELSE "metrics"

\* What an audio analyzer gives its caller: its analyze wraps its whole body
\* in try/except Exception and returns the fallback record from the handler.
AudioAnalyzerOutcome(media) ==
    IF media.audio_fault THEN "fallback" ELSE "metrics"

\* RequestVideoAnalyzer with the analyzer's exception swallowed at the call:
\* the request goes on to the next analyzer without this record.
RequestVideoAnalyzerSwallows(name, next) ==
    /\ request.pc = name
    /\ request' = IF VideoAnalyzerOutcome(name, request.media) = "raised"
                  THEN [request EXCEPT !.pc = next]
                  ELSE [request EXCEPT !.pc = next, !.records[name] = "metrics"]
    /\ UNCHANGED <<eye, posture, speech, voice, inton, agg, transcription, server>>

\* One of the statements of lines 51-52: a video analyzer is called and its
\* record assigned, or its exception reaches the except clause.
RequestVideoAnalyzer(name, next) ==
    /\ request.pc = name
    /\ request' = IF VideoAnalyzerOutcome(name, request.media) = "raised"
                  THEN [request EXCEPT !.pc = "except"]
                  ELSE [request EXCEPT !.pc = next, !.records[name] = "metrics"]
    /\ UNCHANGED <<eye, posture, speech, voice, inton, agg, transcription, server>>

\* One of the statements of lines 53-55: an audio analyzer is called and its
\* record (measured or fallback) assigned.
RequestAudioAnalyzer(name, next) ==
    /\ request.pc = name
    /\ request' = [request EXCEPT !.pc = next,
                                  !.records[name] = AudioAnalyzerOutcome(request.media)]
    /\ UNCHANGED <<eye, posture, speech, voice, inton, agg, transcription, server>>

RequestPosture == RequestVideoAnalyzer("posture", "eye_contact")

RequestEyeContact == RequestVideoAnalyzer("eye_contact", "voice_quality")

RequestVoice == RequestAudioAnalyzer("voice_quality", "speech_disfluencies")

RequestSpeech == RequestAudioAnalyzer("speech_disfluencies", "intonation")

RequestIntonation == RequestAudioAnalyzer("intonation", "combine")

\* Lines 58-75: the five records are combined, the score and the feedback
\* computed and the success response built.
RequestCombine ==
    /\ request.pc = "combine"
    /\ request' = [request EXCEPT !.pc = "finally", !.combined_metrics = TRUE,
                                  !.overall_score = TRUE, !.feedback = TRUE,
                                  !.status = 200, !.response = "metrics"]
    /\ UNCHANGED <<eye, posture, speech, voice, inton, agg, transcription, server>>

\* Lines 77-78: every exception of the try block becomes HTTPException(500,
\* "Analysis failed: ..."), a response that carries a detail string only.
RequestExcept ==
    /\ request.pc = "except"
    /\ request' = [request EXCEPT !.pc = "finally", !.status = 500, !.response = "error"]
    /\ UNCHANGED <<eye, posture, speech, voice, inton, agg, transcription, server>>

\* Lines 79-84: the cleanup.  tmp_file_path is read first: when the upload
\* failed before line 44 the name is unbound and the block itself raises,
\* leaving the temporary file behind; otherwise the temporary file is
\* unlinked, and the audio file if audio_path is bound to it.
RequestFinally ==
    /\ request.pc = "finally"
    /\ request' = IF request.tmp_file_path
                  THEN [request EXCEPT !.pc = "responded", !.tmp_file = FALSE,
                           !.audio_file = IF request.audio_path THEN FALSE ELSE @,
                           !.cleanup = "done"]
                  ELSE [request EXCEPT !.pc = "responded", !.status = 500,
                                       !.response = "error", !.cleanup = "raised"]
    /\ UNCHANGED <<eye, posture, speech, voice, inton, agg, transcription, server>>

RequestNext ==
    \/ RequestCheckContentType \/ RequestSaveUpload \/ RequestExtractAudio
    \/ RequestPosture \/ RequestEyeContact
    \/ RequestVoice \/ RequestSpeech \/ RequestIntonation
    \/ RequestCombine \/ RequestExcept \/ RequestFinally

InitRequest ==
    /\ \E media \in Uploads : request = RequestInit(media)
    /\ eye = Idle /\ posture = Idle /\ speech = Idle /\ voice = Idle /\ inton = Idle
    /\ agg = Idle /\ transcription = Idle /\ server = Idle

SpecRequest == InitRequest /\ [][RequestNext]_vars

----------------------------------------------------------------------------
(* Speech-to-text with a fallback: elevenLabs/transcription.py,            *)
(* transcribe_audio and _summarise_with_gemini.                            *)

\* What the collaborators of one call do.  prepare_ok: the client is built
\* and ensure_elevenlabs_compatible returns; eleven: speech_to_text.convert
\* raises, or the text of its response ("" also when the response has no
\* text attribute); configure_ok: resolve_gemini_model, configure_gemini and
\* GenerativeModel succeed; upload_ok: genai.upload_file succeeds; gemini:
\* generate_content raises, or the text of its response ("none": the
\* attribute is None).
TranscriptionInputs ==
    [ prepare_ok : BOOLEAN,
      eleven : {"raises", "", "ElevenLabs transcript"},
      configure_ok : BOOLEAN, upload_ok : BOOLEAN,
      gemini : {"raises", "none", "", "Gemini transcript"} ]

\* A call just entered.  calls counts the backend calls made so far; outcome
\* is how the call ended: "returned" (with text), "TranscriptionError", or
\* "raised" for another exception.
TranscriptionInit(in) ==
    [ pc |-> "prepare", in |-> in,
      calls |-> [eleven |-> 0, configure |-> 0, upload |-> 0, generate |-> 0],
      contents |-> <<>>, fallback |-> "", outcome |-> "none", text |-> "" ]

\* Lines 41-45: settings, client and prepared audio, outside the try block:
\* an exception here leaves transcribe_audio as it is.
TranscribePrepare ==
    /\ transcription.pc = "prepare"
    /\ transcription' = IF transcription.in.prepare_ok
                        THEN [transcription EXCEPT !.pc = "elevenlabs"]
                        ELSE [transcription EXCEPT !.pc = "done", !.outcome = "raised"]
    /\ UNCHANGED <<eye, posture, speech, voice, inton, agg, request, server>>

\* TranscribeElevenLabs without the "if not text: raise" of lines 50-51: an
\* empty text is returned as the transcript.
TranscribeElevenLabsReturnsEmpty ==
    /\ transcription.pc = "elevenlabs"
    /\ transcription' =
          IF transcription.in.eleven = "raises"
          THEN [transcription EXCEPT !.pc = "gemini_configure", !.calls.eleven = @ + 1]
          ELSE [transcription EXCEPT !.pc = "done", !.calls.eleven = @ + 1,
                                     !.outcome = "returned",
                                     !.text = transcription.in.eleven]
    /\ UNCHANGED <<eye, posture, speech, voice, inton, agg, request, server>>

\* Lines 47-54: the ElevenLabs call.  A non-empty text is returned; an
\* exception, or the ValueError raised for an empty text, is logged and the
\* call goes on to the fallback.
TranscribeElevenLabs ==
    /\ transcription.pc = "elevenlabs"
    /\ transcription' =
          IF transcription.in.eleven \in {"raises", ""}
          THEN [transcription EXCEPT !.pc = "gemini_configure", !.calls.eleven = @ + 1]
          ELSE [transcription EXCEPT !.pc = "done", !.calls.eleven = @ + 1,
                                     !.outcome = "returned",
                                     !.text = transcription.in.eleven]
    /\ UNCHANGED <<eye, posture, speech, voice, inton, agg, request, server>>

\* _summarise_with_gemini, lines 77-87: a configuration failure returns "".
GeminiConfigure ==
    /\ transcription.pc = "gemini_configure"
    /\ transcription' =
          IF transcription.in.configure_ok
          THEN [transcription EXCEPT !.pc = "gemini_upload", !.calls.configure = @ + 1]
          ELSE [transcription EXCEPT !.pc = "fallback_returned",
                                     !.calls.configure = @ + 1, !.fallback = ""]
    /\ UNCHANGED <<eye, posture, speech, voice, inton, agg, request, server>>

\* Lines 95-103: the upload is optional; contents holds it, if any, and the
\* prompt.
GeminiUpload ==
    /\ transcription.pc = "gemini_upload"
    /\ transcription' =
          [transcription EXCEPT !.pc = "gemini_generate", !.calls.upload = @ + 1,
                                !.contents = IF transcription.in.upload_ok
                                             THEN <<"upload", "prompt">>
                                             ELSE <<"prompt">>]
    /\ UNCHANGED <<eye, posture, speech, voice, inton, agg, request, server>>

\* Lines 105-110: getattr(response, "text", "") or "", and "" on an exception.
GeminiGenerate ==
    /\ transcription.pc = "gemini_generate"
    /\ transcription' =
          [transcription EXCEPT !.pc = "fallback_returned", !.calls.generate = @ + 1,
                                !.fallback = IF transcription.in.gemini \in {"raises", "none"}
                                             THEN ""
                                             ELSE transcription.in.gemini]
    /\ UNCHANGED <<eye, posture, speech, voice, inton, agg, request, server>>

\* Lines 56-61: an empty fallback raises TranscriptionError, any other is
\* returned.
TranscribeFallback ==
    /\ transcription.pc = "fallback_returned"
    /\ transcription' =
          IF transcription.fallback = ""
          THEN [transcription EXCEPT !.pc = "done", !.outcome = "TranscriptionError"]
          ELSE [transcription EXCEPT !.pc = "done", !.outcome = "returned",
                                     !.text = transcription.fallback]
    /\ UNCHANGED <<eye, posture, speech, voice, inton, agg, request, server>>

TranscriptionNext ==
    \/ TranscribePrepare \/ TranscribeElevenLabs
    \/ GeminiConfigure \/ GeminiUpload \/ GeminiGenerate \/ TranscribeFallback

InitTranscription ==
    /\ \E in \in TranscriptionInputs : transcription = TranscriptionInit(in)
    /\ eye = Idle /\ posture = Idle /\ speech = Idle /\ voice = Idle /\ inton = Idle
    /\ agg = Idle /\ request = Idle /\ server = Idle

SpecTranscription == InitTranscription /\ [][TranscriptionNext]_vars

----------------------------------------------------------------------------
(* The server process (routers/combined.py, main.py): the analyzer objects *)
(* are created once, when the module is imported, and every request to     *)
(* /analyze runs analyze_full as a coroutine of the one event loop.        *)

\* The requests of one behaviour.
MaxRequests == 2

Requests == 1..MaxRequests

\* The sampled frames of one analyzer pass.
MaxServerFrames == 2

\* pose and face_mesh are the detectors of the module-level posture_analyzer
\* and eye_contact_analyzer (lines 17-18).  Both are built without
\* static_image_mode, that is in video mode with min_tracking_confidence
\* 0.5: process() starts from the landmarks the detector kept from the frame
\* before and leaves the ones of this frame behind.  The value held here is
\* the request whose frame the detector processed last (0: none since
\* __init__).  running is the coroutine that holds the event loop (0: none).
\* pose_read and face_read, the detector states a request's process() calls
\* started from, are the observer's.
ServerInit ==
    [ pose |-> 0, face_mesh |-> 0, running |-> 0,
      req |-> [r \in Requests |->
                 [pc |-> "waiting", frames |-> 0, pose_read |-> {}, face_read |-> {}]] ]

\* analyze_full from its entry to "await video.read()" (lines 34-42), where
\* the coroutine gives the event loop back.
ServerAccept(r) ==
    /\ server.running = 0
    /\ server.req[r].pc = "waiting"
    /\ server' = [server EXCEPT !.req[r].pc = "reading"]
    /\ UNCHANGED <<eye, posture, speech, voice, inton, agg, request, transcription>>

\* The event loop resumes the coroutine after the read; from here to its end
\* analyze_full has no await, so no other coroutine runs in between (lines
\* 43-51).
ServerResume(r) ==
    /\ server.running = 0
    /\ server.req[r].pc = "reading"
    /\ server' = [server EXCEPT !.running = r, !.req[r].pc = "posture"]
    /\ UNCHANGED <<eye, posture, speech, voice, inton, agg, request, transcription>>

\* posture_analyzer.analyze, one sampled frame: self.pose.process(rgb_frame)
\* (posture_analyzer.py line 41).
ServerPoseFrame(r) ==
    /\ server.running = r
    /\ server.req[r].pc = "posture"
    /\ server.req[r].frames < MaxServerFrames
    /\ server' = [server EXCEPT !.pose = r,
                                !.req[r].frames = @ + 1,
                                !.req[r].pose_read = @ \cup {server.pose}]
    /\ UNCHANGED <<eye, posture, speech, voice, inton, agg, request, transcription>>

\* posture_analyzer.analyze returns (line 51).
ServerPostureDone(r) ==
    /\ server.running = r
    /\ server.req[r].pc = "posture"
    /\ server' = [server EXCEPT !.req[r].pc = "eye_contact", !.req[r].frames = 0]
    /\ UNCHANGED <<eye, posture, speech, voice, inton, agg, request, transcription>>

\* eye_contact_analyzer.analyze, one sampled frame:
\* self.face_mesh.process(rgb_frame) (eye_contact_analyzer.py line 90).
ServerFaceFrame(r) ==
    /\ server.running = r
    /\ server.req[r].pc = "eye_contact"
    /\ server.req[r].frames < MaxServerFrames
    /\ server' = [server EXCEPT !.face_mesh = r,
                                !.req[r].frames = @ + 1,
                                !.req[r].face_read = @ \cup {server.face_mesh}]
    /\ UNCHANGED <<eye, posture, speech, voice, inton, agg, request, transcription>>

\* eye_contact_analyzer.analyze returns (line 52).
ServerEyeDone(r) ==
    /\ server.running = r
    /\ server.req[r].pc = "eye_contact"
    /\ server' = [server EXCEPT !.req[r].pc = "audio", !.req[r].frames = 0]
    /\ UNCHANGED <<eye, posture, speech, voice, inton, agg, request, transcription>>

\* The three audio analyzers, whose objects hold only constants, the
\* aggregation and the return through the finally block (lines 53-84).
ServerRespond(r) ==
    /\ server.running = r
    /\ server.req[r].pc = "audio"
    /\ server' = [server EXCEPT !.running = 0, !.req[r].pc = "responded"]
    /\ UNCHANGED <<eye, posture, speech, voice, inton, agg, request, transcription>>

\* An exception in one of the analyzers: the except and finally blocks run
\* and the coroutine ends with an error response (lines 77-84).
ServerFail(r) ==
    /\ server.running = r
    /\ server.req[r].pc \in {"posture", "eye_contact", "audio"}
    /\ server' = [server EXCEPT !.running = 0, !.req[r].pc = "failed"]
    /\ UNCHANGED <<eye, posture, speech, voice, inton, agg, request, transcription>>

ServerNext ==
    \E r \in Requests :
        \/ ServerAccept(r) \/ ServerResume(r)
        \/ ServerPoseFrame(r) \/ ServerPostureDone(r)
        \/ ServerFaceFrame(r) \/ ServerEyeDone(r)
        \/ ServerRespond(r) \/ ServerFail(r)

InitServer ==
    /\ server = ServerInit
    /\ eye = Idle /\ posture = Idle /\ speech = Idle /\ voice = Idle /\ inton = Idle
    /\ agg = Idle /\ request = Idle /\ transcription = Idle

SpecServer == InitServer /\ [][ServerNext]_vars

----------------------------------------------------------------------------
(* Properties of EyeContactAnalyzer                                        *)

\* The number of samples of a history that were found looking.
LookingSamples(history) == Cardinality({k \in DOMAIN history : history[k].is_looking})

\* The number of samples of a history in which a face was detected.
FaceSamples(history) == Cardinality({k \in DOMAIN history : history[k].kind # "noface"})

\* C1: after any sequence of sampled frames (no face, unusable iris, not
\* looking, looking) the count of looking samples - which is the number of
\* samples found looking - never exceeds the count of face-detected samples
\* - which is the number of samples with a face - and the returned
\* eye_contact_percentage lies in [0, 100].
C1_LookingWithinFaceDetected ==
    eye.pc \in {"loop", "done"} =>
        /\ eye.eye_contact_frames = LookingSamples(eye.history)
        /\ eye.total_frames = FaceSamples(eye.history)
        /\ eye.eye_contact_frames <= eye.total_frames
        /\ eye.pc = "done" =>
              /\ RatLeq(Rat(0, 1), eye.result.eye_contact_percentage)
              /\ RatLeq(eye.result.eye_contact_percentage, Rat(100, 1))

\* A finished pass that saw all four kinds of sample.
C1_Witness ==
    /\ eye.pc = "done"
    /\ 0 < eye.eye_contact_frames /\ eye.eye_contact_frames < eye.total_frames
    /\ \E k \in DOMAIN eye.history : eye.history[k].kind = "noface"
    /\ \E k \in DOMAIN eye.history : eye.history[k].kind = "unusable"
    /\ \E k \in DOMAIN eye.history :
          eye.history[k].kind = "other" /\ ~eye.history[k].is_looking

\* C2: if no sampled frame holds a detected face (for any number of frames,
\* zero included), the returned eye_contact_percentage is exactly 0.0 and the
\* feedback list is exactly the one "No face detected" message.
C2_NoFaceRecord ==
    (eye.pc = "done" /\ \A k \in DOMAIN eye.history : eye.history[k].kind = "noface") =>
        /\ eye.result.eye_contact_percentage = Rat(0, 1)
        /\ eye.result.feedback = <<"no_face_detected">>

\* A finished pass over several sampled frames, none with a face.
C2_Witness ==
    /\ eye.pc = "done" /\ Len(eye.history) >= 2
    /\ \A k \in DOMAIN eye.history : eye.history[k].kind = "noface"
    /\ eye.result.feedback = <<"no_face_detected">>

\* C3: if every sampled frame (at least one) has a face with valid iris
\* landmarks, gaze offset (0,0) and a forward head, the returned
\* eye_contact_percentage is 100.0 and gaze_shifts_per_minute is 0.
C3_CenteredGaze ==
    ( /\ eye.pc = "done" /\ eye.history # <<>>
      /\ \A k \in DOMAIN eye.history : eye.history[k].kind = "centered" ) =>
        /\ RatEq(eye.result.eye_contact_percentage, Rat(100, 1))
        /\ RatEq(eye.result.gaze_shifts_per_minute, Rat(0, 1))

\* A finished pass over several sampled frames, all centred.
C3_Witness ==
    /\ eye.pc = "done" /\ Len(eye.history) >= 3
    /\ \A k \in DOMAIN eye.history : eye.history[k].kind = "centered"
    /\ RatEq(eye.result.eye_contact_percentage, Rat(100, 1))

----------------------------------------------------------------------------
(* Properties of PostureAnalyzer and of the analyzers' feedback            *)

\* C4: if no sample of an opened video is a valid posture sample (no pose,
\* or a shoulder or hip landmark with visibility <= 0.5, in every sample),
\* the four score fields are all 0.7 and the feedback list is exactly the one
\* success message.
C4_PostureDefaults ==
    (posture.pc = "done" /\ \A k \in DOMAIN posture.history :
                               posture.history[k].kind # "valid") =>
        posture.result = [ average_shoulder_alignment |-> Rat(7, 10),
                           average_back_straightness |-> Rat(7, 10),
                           stability_score |-> Rat(7, 10),
                           confidence_score |-> Rat(7, 10),
                           feedback |-> <<"posture_good">> ]

\* A finished pass whose samples were poseless or low-visibility, never valid.
C4_Witness ==
    /\ posture.pc = "done"
    /\ \E k \in DOMAIN posture.history : posture.history[k].kind = "nopose"
    /\ \E k \in DOMAIN posture.history : posture.history[k].kind = "lowvis"
    /\ \A k \in DOMAIN posture.history : posture.history[k].kind # "valid"
    /\ posture.result.feedback = <<"posture_good">>

\* C5: every metrics record an analyzer returns - from the normal path, the
\* whole-clip default and the exception fallback alike - has a non-empty
\* feedback list; so has the eye-contact record, whose success message needs
\* eye_contact_percentage > 0, for every sample sequence.
C5_FeedbackNeverEmpty ==
    /\ posture.pc = "done" => posture.result.feedback # <<>>
    /\ eye.pc = "done" => eye.result.feedback # <<>>
    /\ voice.pc = "done" => voice.result.feedback # <<>>
    /\ speech.pc = "done" => speech.result.feedback # <<>>
    /\ inton.pc = "done" => inton.result.feedback # <<>>

\* An eye-contact record for a clip with faces in it and not one looking
\* sample: the percentage is 0, the success message is out of reach.
C5_Witness ==
    /\ eye.pc = "done" /\ eye.total_frames > 0 /\ eye.eye_contact_frames = 0
    /\ eye.result.eye_contact_percentage.num = 0
    /\ eye.result.feedback # <<>>

----------------------------------------------------------------------------
(* Properties of SpeechAnalyzer                                            *)

\* The number of positions of s at which sub occurs, overlaps included.
Occurrences(s, sub) == Cardinality({k \in 1..Len(s) : MatchAt(s, sub, k)})

\* The sum, over the ten lexicon terms, of the occurrences of the term in
\* the lower-cased text.
LexiconOccurrences(text) ==
    SumSeq([k \in 1..Len(filler_words) |-> Occurrences(Lower(text), filler_words[k])])

\* C6: for every transcript detect_filler_words returns the sum over the ten
\* lexicon terms of the occurrences of the term as a substring of the
\* lower-cased transcript, word boundaries ignored and overlapping
\* occurrences of different terms each counted; for "um, like, you know what
\* I mean" it returns exactly 3.
C6_FillerCount ==
    /\ (speech.pc \in {"stutters", "pauses", "done"} /\ speech.text # <<>>) =>
           speech.filler_count = LexiconOccurrences(speech.text)
    /\ (speech.pc \in {"stutters", "pauses", "done"} /\ speech.text = FillerExample) =>
           speech.filler_count = 3
    /\ (speech.pc = "done" /\ speech.path = "try") =>
           speech.result.filler_word_count = speech.filler_count

\* The example transcript analysed to the end, with its count of 3.
C6_Witness ==
    /\ speech.pc = "done" /\ speech.text = FillerExample
    /\ speech.result.filler_word_count = 3

\* The reference pass of the stutter rule over the tokens w from index i
\* (0-based): an adjacent repeat of a word longer than 2 counts one and
\* advances by 2, else a repeat at distance 2 of a word of at most 3 letters
\* counts one and advances by 3, else the index advances by 1.
RECURSIVE ReferenceStutters(_, _)
ReferenceStutters(w, i) ==
    IF i >= Len(w) THEN 0
    ELSE IF i + 1 < Len(w) /\ w[i + 1] = w[i + 2] /\ Len(w[i + 1]) > 2
         THEN 1 + ReferenceStutters(w, i + 2)
    ELSE IF i + 2 < Len(w) /\ w[i + 1] = w[i + 3] /\ Len(w[i + 1]) <= 3
         THEN 1 + ReferenceStutters(w, i + 3)
    ELSE ReferenceStutters(w, i + 1)

\* C7: detect_stutters gives, for every token list, the count of the
\* reference pass over the lower-cased whitespace tokens, and at every point
\* of its loop what it has counted plus what the reference counts from its
\* index on is that total; on ["the", "the", "cat"] it counts exactly 1 and its
\* index goes from 0 to 2.
C7_StutterCount ==
    /\ (speech.pc \in {"stutters", "pauses", "done"} /\ speech.text # <<>>) =>
           /\ speech.words = Split(Lower(speech.text))
           /\ speech.stutter_count + (IF speech.pc = "stutters"
                                      THEN ReferenceStutters(speech.words, speech.i)
                                      ELSE 0)
                 = ReferenceStutters(Split(Lower(speech.text)), 0)
    /\ (speech.pc \in {"stutters", "pauses", "done"} /\ speech.text = StutterExample) =>
           /\ speech.words = << <<"t", "h", "e">>, <<"t", "h", "e">>, <<"c", "a", "t">> >>
           /\ <<speech.i, speech.stutter_count>> \in
                 IF speech.pc = "stutters" THEN {<<0, 0>>, <<2, 1>>} ELSE {<<2, 1>>}
    /\ (speech.pc = "done" /\ speech.path = "try") =>
           speech.result.stutter_count = speech.stutter_count

\* "the the cat" analysed to the end: one stutter, the index left at 2.
C7_Witness ==
    /\ speech.pc = "done" /\ speech.text = StutterExample
    /\ speech.i = 2 /\ speech.result.stutter_count = 1

\* C8: when the transcription collaborator returns an empty transcript,
\* analyze does not take its except branch: it returns speech_rate,
\* filler_word_count, stutter_count and disfluency_rate all 0, and pause_count
\* as the silence segmentation gives it.
C8_EmptyTranscript ==
    (speech.pc = "done" /\ speech.transcribed /\ speech.text = <<>>) =>
        /\ speech.path = "try"
        /\ RatEq(speech.result.speech_rate, Rat(0, 1))
        /\ speech.result.filler_word_count = 0
        /\ speech.result.stutter_count = 0
        /\ RatEq(speech.result.disfluency_rate, Rat(0, 1))
        /\ speech.result.pause_count =
              (IF speech.chunks >= 1 THEN speech.chunks - 1 ELSE 0)
        /\ speech.result.feedback # <<"could_not_analyze_speech">>

\* An empty transcript for a clip of positive length in three chunks: the
\* record is all zero but for its two pauses.
C8_Witness ==
    /\ speech.pc = "done" /\ speech.transcribed /\ speech.text = <<>>
    /\ speech.duration_seconds > 0 /\ speech.chunks = 3
    /\ speech.result.pause_count = 2 /\ speech.path = "try"

----------------------------------------------------------------------------
(* Properties of the aggregator                                            *)

\* C9: generate_feedback, generate_cv_feedback and generate_voice_feedback
\* return a non-empty list for every combination of metric values, the one
\* where every analyzer returned its neutral-default record included.
C9_AggregatorFeedbackNeverEmpty ==
    agg.pc = "ready" =>
        /\ agg.called.feedback => agg.feedback # <<>>
        /\ agg.called.cv => agg.cv_feedback # <<>>
        /\ agg.called.voice => agg.voice_feedback # <<>>

\* The all-neutral-default metrics object with the three lists generated.
C9_Witness ==
    /\ agg.pc = "ready" /\ agg.metrics = NeutralDefaults
    /\ agg.called.feedback /\ agg.called.cv /\ agg.called.voice
    /\ Len(agg.feedback) >= 1 /\ Len(agg.cv_feedback) >= 1 /\ Len(agg.voice_feedback) >= 1

\* C10: the aggregator is idempotent and stateless: every call of
\* calculate_overall_score or generate_feedback, after any calls before it,
\* leaves every field of the metrics object as it was, and returns the score
\* and the ordered feedback list that the first call returned.
C10_AggregatorStateless ==
    [][ agg.pc = "ready" =>
          /\ agg'.metrics = agg.metrics
          /\ agg.called.score => agg'.overall_score = agg.overall_score
          /\ agg.called.feedback => agg'.feedback = agg.feedback ]_vars

\* A metrics object of which the score and the feedback have both been
\* asked, the eye-contact message carrying the percentage to one decimal.
C10_Witness ==
    /\ agg.pc = "ready" /\ agg.called.score /\ agg.called.feedback
    /\ agg.metrics.eye_contact.eye_contact_percentage = 5994
    /\ \E k \in DOMAIN agg.feedback : agg.feedback[k] = Message("eye_contact_at", 599)
    /\ agg.overall_score = calculate_overall_score(agg.metrics)

----------------------------------------------------------------------------
(* Properties of the composite scores                                      *)

\* C11: for every metrics object whose ratio fields are in [0, 1], whose
\* eye_contact_percentage is in [0, 100] and whose disfluency_rate is >= 0,
\* each composite score (calculate_cv_score, calculate_voice_score,
\* calculate_overall_score) lies in [0, 100]; the five overall weights sum
\* to 1 and disfluency_score is never below 0.
C11_ScoresInRange ==
    agg.pc = "ready" =>
        /\ weights.posture + weights.eye_contact + weights.voice_quality
              + weights.speech_disfluencies + weights.intonation = 100
        /\ disfluency_score(agg.metrics) >= 0
        /\ agg.called.score =>
              (0 <= agg.overall_score /\ agg.overall_score <= 10000)
        /\ agg.called.cv_score =>
              (0 <= agg.cv_score /\ agg.cv_score <= 10000)
        /\ agg.called.voice_score =>
              (0 <= agg.voice_score /\ agg.voice_score <= 10000)

\* All three scores computed for a speaker with more than ten disfluencies
\* a minute, whose other voice fields are all 0.
C11_Witness ==
    /\ agg.pc = "ready"
    /\ agg.called.score /\ agg.called.cv_score /\ agg.called.voice_score
    /\ agg.metrics.speech_disfluencies.disfluency_rate > 1000
    /\ agg.voice_score = 0 /\ agg.cv_score = 10000
    /\ agg.overall_score = 100 * (weights.posture + weights.eye_contact)

----------------------------------------------------------------------------
(* Properties of the combined analysis request                             *)

\* The upload reached the analyzers as a video that opens and decodes.
MediaOpened(media) == media.is_video /\ media.upload_ok /\ media.opens

\* C12: for every uploaded video that opens successfully the combined
\* analysis request ends with a response holding all five metrics records
\* and a composite score; no failure after the media opened (a missing audio
\* track, an audio extraction failure, an exception inside a video analyzer's
\* frame loop) turns the request into an error response without metrics.
C12_OpenedMediaGetsMetrics ==
    (request.pc = "responded" /\ MediaOpened(request.media)) =>
        /\ request.response = "metrics"
        /\ \A r \in RecordNames : request.records[r] # "none"
        /\ request.overall_score

----------------------------------------------------------------------------
(* Properties of the audio analyzers' exception boundary                   *)

\* C13: VoiceAnalyzer.analyze, IntonationAnalyzer.analyze and
\* SpeechAnalyzer.analyze never raise past their own boundary: every pass
\* ends by returning a record, and a pass that met an exception (empty audio
\* included) returns the fixed fallback record - {-20.0, 0.7, 0.7, 50.0,
\* 150.0, 0.7} for voice quality, {0.3, 0.5, 0.7, 0.4, 0.5} for intonation,
\* all zeros for disfluency - with exactly one feedback string.
C13_AudioAnalyzersNeverRaise ==
    /\ voice.pc \in {"idle", "start", "done"}
    /\ inton.pc \in {"idle", "start", "done"}
    /\ speech.pc \in {"idle", "start", "loaded", "stutters", "pauses", "done"}
    /\ (voice.pc = "done" /\ voice.path = "except") =>
          /\ RatEq(voice.result.average_volume, Rat(-20, 1))
          /\ RatEq(voice.result.volume_consistency, Rat(7, 10))
          /\ RatEq(voice.result.clarity_score, Rat(7, 10))
          /\ RatEq(voice.result.pitch_range, Rat(50, 1))
          /\ RatEq(voice.result.average_pitch, Rat(150, 1))
          /\ RatEq(voice.result.voice_stability, Rat(7, 10))
          /\ voice.result.feedback = <<"could_not_analyze_voice">>
    /\ (inton.pc = "done" /\ inton.path = "except") =>
          /\ RatEq(inton.result.pitch_variation, Rat(3, 10))
          /\ RatEq(inton.result.stress_pattern_score, Rat(5, 10))
          /\ RatEq(inton.result.monotone_score, Rat(7, 10))
          /\ RatEq(inton.result.energy_variation, Rat(4, 10))
          /\ RatEq(inton.result.prosody_score, Rat(5, 10))
          /\ inton.result.feedback = <<"could_not_analyze_intonation">>
    /\ (speech.pc = "done" /\ speech.path = "except") =>
          /\ speech.result.stutter_count = 0
          /\ speech.result.filler_word_count = 0
          /\ speech.result.pause_count = 0
          /\ speech.result.total_disfluencies = 0
          /\ RatEq(speech.result.disfluency_rate, Rat(0, 1))
          /\ RatEq(speech.result.speech_rate, Rat(0, 1))
          /\ speech.result.feedback = <<"could_not_analyze_speech">>

\* A voice-quality pass that ended in its except branch.
C13_Witness ==
    /\ voice.pc = "done" /\ voice.path = "except"
    /\ voice.result.feedback = <<"could_not_analyze_voice">>

----------------------------------------------------------------------------
(* Properties of transcribe_audio                                          *)

\* ElevenLabs raised or returned an empty text.
ElevenLabsFailed(in) == in.eleven \in {"raises", ""}

\* The Gemini fallback has a text to give: it was configured and
\* generate_content answered with a non-empty text.
GeminiHasText(in) == in.configure_ok /\ in.gemini = "Gemini transcript"

\* C14: transcribe_audio tries the backends in a fixed order.  It returns
\* the ElevenLabs text when ElevenLabs succeeds with a non-empty text and
\* then never calls Gemini; when ElevenLabs raises or returns an empty text
\* it returns the Gemini fallback text; it raises TranscriptionError exactly
\* when ElevenLabs failed and the Gemini fallback produced no text (a Gemini
\* configuration failure included).  Gemini is never called before
\* ElevenLabs.
C14_TranscriptionFallbackOrder ==
    /\ transcription.pc \notin {"idle", "prepare", "elevenlabs"} =>
          (transcription.calls.configure > 0 => transcription.calls.eleven = 1)
    /\ (transcription.pc = "done" /\ transcription.in.prepare_ok) =>
          LET in == transcription.in
          IN  /\ ~ElevenLabsFailed(in) =>
                    /\ transcription.outcome = "returned"
                    /\ transcription.text = in.eleven
                    /\ transcription.calls.configure = 0
                    /\ transcription.calls.upload = 0
                    /\ transcription.calls.generate = 0
              /\ (ElevenLabsFailed(in) /\ GeminiHasText(in)) =>
                    /\ transcription.outcome = "returned"
                    /\ transcription.text = in.gemini
              /\ transcription.outcome = "TranscriptionError" <=>
                    (ElevenLabsFailed(in) /\ ~GeminiHasText(in))

\* A call in which ElevenLabs answered with an empty text and the Gemini
\* fallback, its upload having failed, gave the transcript.
C14_Witness ==
    /\ transcription.pc = "done"
    /\ transcription.in.eleven = "" /\ ~transcription.in.upload_ok
    /\ transcription.outcome = "returned"
    /\ transcription.text = "Gemini transcript"
    /\ transcription.calls = [eleven |-> 1, configure |-> 1, upload |-> 1, generate |-> 1]

----------------------------------------------------------------------------
(* Properties of the posture scores                                        *)

\* Every score of a list lies in [0.0, 1.0].
ScoresInUnit(scores) == \A k \in DOMAIN scores : 0 <= scores[k] /\ scores[k] <= One

\* A returned ratio lies in [0, 1].
RatioInUnit(r) == RatLeq(Rat(0, 1), r) /\ RatLeq(r, Rat(1, 1))

\* C15: for every valid posture sample with landmark coordinates in [0, 1],
\* each per-sample score (shoulder_alignment, back_straightness in all three
\* branches of vertical_alignment, stability, confidence) lies in [0, 1],
\* and therefore every ratio field of the returned PostureMetrics lies in
\* [0, 1].
C15_PostureScoresInUnit ==
    posture.pc \in {"loop", "done"} =>
        /\ ScoresInUnit(posture.shoulder_alignments)
        /\ ScoresInUnit(posture.back_straightness_scores)
        /\ ScoresInUnit(posture.stability_scores)
        /\ ScoresInUnit(posture.confidence_scores)
        /\ posture.pc = "done" =>
              /\ RatioInUnit(posture.result.average_shoulder_alignment)
              /\ RatioInUnit(posture.result.average_back_straightness)
              /\ RatioInUnit(posture.result.stability_score)
              /\ RatioInUnit(posture.result.confidence_score)

\* A finished pass over three valid samples: one with back straightness
\* 0.8 (vertical_alignment 0.1), one with level shoulders and back
\* straightness 0.0, one with shoulder alignment 0.0, the shoulders having
\* moved from one edge of the frame to the other (stability 0.0).
C15_Witness ==
    /\ posture.pc = "done"
    /\ Len(posture.back_straightness_scores) = 3
    /\ \E k \in 1..3 : posture.back_straightness_scores[k] = 1600
    /\ \E k \in 1..3 :
          /\ posture.history[k].kind = "valid"
          /\ posture.back_straightness_scores[k] = 0
          /\ posture.shoulder_alignments[k] = One
    /\ \E k \in 1..3 : posture.shoulder_alignments[k] = 0
    /\ \E k \in 1..2 : posture.stability_scores[k] = 0
    /\ \E k \in 1..3 : posture.confidence_scores[k] = One
    /\ RatEq(posture.result.stability_score, Rat(0, 1))

----------------------------------------------------------------------------
(* Properties of the posture sampling                                      *)

\* The decoded frames, by zero-based index, that pose detection was run on.
SampledFrames(history) == { history[k].frame : k \in DOMAIN history }

\* C16: PostureAnalyzer.analyze runs pose detection on exactly the decoded
\* frames whose zero-based index is a multiple of 5; skipping a sample
\* because a shoulder or hip landmark has confidence <= 0.5 does not change
\* which later frames are sampled, for any sequence of frames.
C16_SamplesEveryFifthFrame ==
    posture.pc \in {"loop", "done"} =>
        SampledFrames(posture.history) =
            { f \in 0..(posture.frames_read - 1) : f % PostureStride = 0 }

----------------------------------------------------------------------------
(* Properties of the eye-contact runs and gaze shifts                      *)

\* The number of maximal runs of consecutive looking samples of a history:
\* the looking samples that are the last one or are followed by a sample
\* that is not looking (a sample without a face is not looking).
MaximalRuns(history) ==
    Cardinality({ k \in DOMAIN history :
                    /\ history[k].is_looking
                    /\ (k = Len(history) \/ ~history[k + 1].is_looking) })

\* C17: for any sequence of eye-contact samples the duration list holds
\* exactly one entry per maximal run of consecutive looking samples, where
\* every not-looking sample - a sample with no face detected included - ends
\* the current run and resets the run length; a run is never continued
\* across a no-face sample.
C17_OneDurationPerRun ==
    /\ eye.pc = "done" =>
          Len(eye.eye_contact_durations) = MaximalRuns(eye.history)
    /\ (eye.pc = "loop" /\ eye.history # <<>>
          /\ ~eye.history[Len(eye.history)].is_looking) => eye.current_duration = 0

\* The number of adjacent pairs of samples whose is_looking values differ.
LookingChanges(history) ==
    Cardinality({ k \in 1..(Len(history) - 1) :
                    history[k].is_looking # history[k + 1].is_looking })

\* C18: for any sequence of eye-contact samples the gaze-shift counter equals
\* the number of adjacent sample pairs whose is_looking values differ, a
\* no-face sample having is_looking = false; the first sample never counts
\* as a shift, and a transition caused by losing or regaining face detection
\* counts exactly once.
C18_GazeShiftsCountChanges ==
    eye.pc \in {"loop", "done"} =>
        /\ eye.gaze_shifts = LookingChanges(eye.history)
        /\ Len(eye.history) <= 1 => eye.gaze_shifts = 0

\* A finished pass in which the face was lost during eye contact and found
\* again, looking: two shifts, after a first sample that counted none.
C18_Witness ==
    /\ eye.pc = "done"
    /\ Len(eye.history) = 4
    /\ eye.history[1].kind = "noface"
    /\ eye.history[2].is_looking
    /\ eye.history[3].kind = "noface"
    /\ eye.history[4].is_looking
    /\ eye.gaze_shifts = 3

----------------------------------------------------------------------------
(* Properties relating the aggregator's feedback to the analyzers' rules   *)

\* The texts of a feedback list.
Texts(feedback) == { feedback[k].msg : k \in DOMAIN feedback }

\* A ratio field of a metrics object (thousandths) as the analyzers hold it.
Ratio(thousandths) == Rat(thousandths, 1000)

\* The posture analyzer's own rules fire on the values of m.
PostureRuleFires(m) ==
    PostureFeedback(Ratio(m.posture.average_shoulder_alignment),
                    Ratio(m.posture.average_back_straightness),
                    Ratio(m.posture.stability_score),
                    Ratio(m.posture.confidence_score)) # <<"posture_good">>

\* The eye-contact analyzer's percentage or shift-rate rule fires on the
\* values of m (percentage in hundredths of a percent, shifts in tenths).
EyeRuleFires(m) ==
    \/ m.eye_contact.eye_contact_percentage < 6000
    \/ m.eye_contact.gaze_shifts_per_minute > 200

\* The voice-quality analyzer's own rules fire on the values of m.
VoiceRuleFires(m) ==
    VoiceFeedback(Ratio(m.voice_quality.volume_consistency),
                  Ratio(m.voice_quality.clarity_score),
                  Ratio(m.voice_quality.voice_stability),
                  Rat(m.voice_quality.average_volume, 1)) # <<"voice_excellent">>

\* The intonation analyzer's own rules fire on the values of m.
IntonationRuleFires(m) ==
    IntonationFeedback(Ratio(m.intonation.monotone_score),
                       Ratio(m.intonation.pitch_variation),
                       Ratio(m.intonation.energy_variation),
                       Ratio(m.intonation.stress_pattern_score),
                       Ratio(m.intonation.prosody_score)) # <<"intonation_excellent">>

\* C19: the aggregator's feedback synthesis applies the same predicates as
\* the analyzers: for every combined metrics object an aggregator message
\* for a dimension is emitted if and only if that analyzer's own rule
\* threshold fires on the same values (posture alignment, straightness,
\* stability, confidence; eye-contact percentage and shift rate; voice
\* consistency, clarity, stability; intonation monotone and prosody < 0.5),
\* so the universal success message is appended only when no analyzer rule
\* fires.
C19_SameRulesAsAnalyzers ==
    (agg.pc = "ready" /\ agg.called.feedback) =>
        LET m == agg.metrics
            said == Texts(agg.feedback)
        IN  /\ (said \cap {"shoulders_aligned", "stable_posture"} # {})
                  <=> PostureRuleFires(m)
            /\ (said \cap {"eye_contact_at", "gaze_shifts_frequent"} # {})
                  <=> EyeRuleFires(m)
            /\ (said \cap {"volume_varies", "enunciate"} # {})
                  <=> VoiceRuleFires(m)
            /\ (said \cap {"monotone", "vary_intonation"} # {})
                  <=> IntonationRuleFires(m)
            /\ "great_job" \in said =>
                  ~(PostureRuleFires(m) \/ EyeRuleFires(m) \/ VoiceRuleFires(m)
                      \/ IntonationRuleFires(m))

----------------------------------------------------------------------------
(* Properties of samples without a usable detection                        *)

\* The step just taken sampled a frame in the eye-contact pass, and the
\* sample was of one of the given kinds.
EyeSampled(kinds) ==
    /\ eye.pc = "loop" /\ eye'.pc = "loop"
    /\ Len(eye'.history) = Len(eye.history) + 1
    /\ eye'.history[Len(eye'.history)].kind \in kinds

\* The step just taken sampled a frame in the posture pass, and the sample
\* was of one of the given kinds.
PostureSampled(kinds) ==
    /\ posture.pc = "loop" /\ posture'.pc = "loop"
    /\ Len(posture'.history) = Len(posture.history) + 1
    /\ posture'.history[Len(posture'.history)].kind \in kinds

\* The step left the two counts behind eye_contact_percentage as they were.
EyeCountsKept ==
    /\ eye'.total_frames = eye.total_frames
    /\ eye'.eye_contact_frames = eye.eye_contact_frames

\* The step left the four score lists behind the posture means as they were.
PostureListsKept ==
    /\ posture'.shoulder_alignments = posture.shoulder_alignments
    /\ posture'.back_straightness_scores = posture.back_straightness_scores
    /\ posture'.stability_scores = posture.stability_scores
    /\ posture'.confidence_scores = posture.confidence_scores

\* C20 as stated: a sample that lacks a usable detection (no face, no pose,
\* or a required landmark with confidence <= 0.5 - an iris of the face mesh
\* as much as a shoulder or hip of the skeleton) is excluded from the
\* denominator of every aggregate: it changes neither eye_contact_percentage
\* nor any posture mean, and is never counted as a not-looking sample.
C20_UnusableSamplesExcluded ==
    [][ /\ EyeSampled({"noface", "unusable"}) => EyeCountsKept
        /\ PostureSampled({"nopose", "lowvis"}) => PostureListsKept ]_vars

\* C20, amended: a sample with no face, no pose, or a shoulder or hip
\* landmark with confidence <= 0.5 is excluded from the denominator of every
\* aggregate: it changes neither the counts behind eye_contact_percentage
\* nor any posture score list, and is never counted as a not-looking sample.
\* A sample with a face whose iris landmarks are missing, have confidence
\* <= 0.5 or lie outside the frame is counted: it adds one to the
\* face-detected count and none to the looking count.
C20_UndetectedSamplesExcluded ==
    [][ /\ EyeSampled({"noface"}) => EyeCountsKept
        /\ EyeSampled({"unusable"}) =>
              /\ eye'.total_frames = eye.total_frames + 1
              /\ eye'.eye_contact_frames = eye.eye_contact_frames
        /\ PostureSampled({"nopose", "lowvis"}) => PostureListsKept ]_vars

\* A finished eye-contact pass over a looking sample, a sample without a
\* face and a sample with an unusable iris: one of two counted samples was
\* looking, 50 percent.
C20_Witness ==
    /\ eye.pc = "done"
    /\ Len(eye.history) = 3
    /\ eye.history[1].is_looking
    /\ eye.history[2].kind = "noface"
    /\ eye.history[3].kind = "unusable"
    /\ eye.total_frames = 2
    /\ RatEq(eye.result.eye_contact_percentage, Rat(50, 1))

----------------------------------------------------------------------------
(* C21                                                                     *)

\* C21: a media file that cannot be opened or decoded is fatal in every
\* analyzer: no analyzer pass whose media could not be opened returns a
\* record; the video analyzers return only after the capture opened, the
\* audio analyzers only after librosa.load returned a waveform.
C21_UnopenableMediaIsFatal ==
    /\ eye.pc = "done" => eye.cap = "released"
    /\ posture.pc = "done" => posture.cap = "released"
    /\ voice.pc = "done" => voice.input # "unopenable"
    /\ speech.pc = "done" => speech.opened
    /\ inton.pc = "done" => inton.input # "unopenable"

----------------------------------------------------------------------------
(* C22                                                                     *)

\* C22: every handle of a video analyzer pass is released on every exit
\* path of the pass: whenever analyze has returned or raised, the video
\* capture is not left open and the face-mesh / pose detector has been
\* closed, without waiting for the finalizer.
C22_HandlesReleasedOnEveryExit ==
    /\ eye.pc \in {"done", "raised"} =>
          eye.cap # "open" /\ eye.face_mesh = "closed"
    /\ posture.pc \in {"done", "raised"} =>
          posture.cap # "open" /\ posture.pose = "closed"

----------------------------------------------------------------------------
(* C23                                                                     *)

\* C23: no mutable state is shared between requests: no two requests are
\* inside a video analyzer at the same time, and every process() call of a
\* request starts from detector state that is fresh from __init__ or was
\* left by a frame of the same request, never by a frame of another one.
C23_NoDetectorStateShared ==
    /\ \A r1, r2 \in Requests :
          (/\ server.req[r1].pc \in {"posture", "eye_contact"}
           /\ server.req[r2].pc \in {"posture", "eye_contact"}) => r1 = r2
    /\ \A r \in Requests :
          /\ server.req[r].pose_read \subseteq {0, r}
          /\ server.req[r].face_read \subseteq {0, r}

----------------------------------------------------------------------------
(* C24                                                                     *)

\* C24: in a combined request the aggregator runs only after all five
\* analyzers have returned: whenever the metrics object, the score or the
\* feedback has been computed, each of the five records is there, and no
\* analyzer of this request raised.
C24_AggregatesAfterAllFive ==
    (request.pc # "idle" /\ (request.combined_metrics \/ request.overall_score
                              \/ request.feedback)) =>
        /\ \A r \in RecordNames : request.records[r] # "none"
        /\ \A name \in {"posture", "eye_contact"} :
              VideoAnalyzerOutcome(name, request.media) # "raised"

\* A request that was answered with a score computed from five records, one
\* of them a fallback record.
C24_Witness ==
    /\ request.pc = "responded" /\ request.status = 200
    /\ request.overall_score /\ request.feedback
    /\ \A r \in RecordNames : request.records[r] # "none"
    /\ request.records["speech_disfluencies"] = "fallback"

----------------------------------------------------------------------------
(* C25                                                                     *)

\* C25: on one metrics object the posture and eye-contact sub-scores formed
\* inside calculate_overall_score equal those formed inside
\* calculate_cv_score, its voice, disfluency and intonation sub-scores equal
\* those formed inside calculate_voice_score, and the overall score is
\* 0.15 posture + 0.20 eye + 0.20 voice + 0.20 disfluency + 0.25 intonation
\* of them, rounded to two decimals.
C25_SubScoresAgree ==
    /\ (agg.pc = "ready" /\ agg.called.score /\ agg.called.cv_score) =>
          /\ agg.overall_locals.posture_score = agg.cv_locals.posture_score
          /\ agg.overall_locals.eye_contact_score = agg.cv_locals.eye_contact_score
    /\ (agg.pc = "ready" /\ agg.called.score /\ agg.called.voice_score) =>
          /\ agg.overall_locals.voice_score = agg.voice_locals.voice_score
          /\ agg.overall_locals.disfluency_score = agg.voice_locals.disfluency_score
          /\ agg.overall_locals.intonation_score = agg.voice_locals.intonation_score
    /\ (agg.pc = "ready" /\ agg.called.score) =>
          agg.overall_score =
              RoundHalfEven(15 * agg.overall_locals.posture_score
                            + 20 * agg.overall_locals.eye_contact_score
                            + 20 * agg.overall_locals.voice_score
                            + 20 * agg.overall_locals.disfluency_score
                            + 25 * agg.overall_locals.intonation_score, 1000)

\* The three scores have been computed on an object whose disfluency rate is
\* past 10 per minute (the sub-score is cut off at 0) and whose eye-contact
\* percentage and direct score differ.
C25_Witness ==
    /\ agg.pc = "ready"
    /\ agg.called.score /\ agg.called.cv_score /\ agg.called.voice_score
    /\ agg.metrics.speech_disfluencies.disfluency_rate > 1000
    /\ agg.voice_locals.disfluency_score = 0
    /\ agg.metrics.eye_contact.eye_contact_percentage = 3333
    /\ agg.metrics.eye_contact.direct_eye_contact_score = 1000
    /\ agg.cv_locals.eye_contact_score > 0

----------------------------------------------------------------------------
(* C26                                                                     *)

\* No token position lies in two of the spans.
Disjoint(spans) ==
    \A a, b \in DOMAIN spans :
        a # b => (spans[a].last < spans[b].first \/ spans[b].last < spans[a].first)

\* C26: every iteration of the loop of detect_stutters moves the scan index
\* strictly forward and never past the end of the token list, so the loop
\* ends after at most len(words) iterations; the step that leaves the loop
\* finds the index at len(words) - 1 or beyond; and the counted spans
\* (i..i+1 for an adjacent repeat, i..i+2 for a repeat at distance 2) have
\* no token position in common.
C26_StutterScanAdvances ==
    [][ speech.pc = "stutters" =>
          /\ \/ /\ speech'.pc = "stutters"
                /\ speech'.i > speech.i
                /\ speech'.i <= Len(speech.words)
             \/ /\ speech'.pc # "stutters"
                /\ speech.i >= Len(speech.words) - 1
          /\ Disjoint(speech'.spans)
          /\ Len(speech'.spans) = speech'.stutter_count
          /\ \A k \in DOMAIN speech'.spans :
                0 <= speech'.spans[k].first
                /\ speech'.spans[k].last < Len(speech.words) ]_vars

\* A token list on which a repeat at distance 2 and an adjacent repeat were
\* both counted.
C26_Witness ==
    /\ speech.pc = "done" /\ speech.path = "try"
    /\ Len(speech.spans) = 2
    /\ \E k \in DOMAIN speech.spans :
          speech.spans[k].last = speech.spans[k].first + 2

----------------------------------------------------------------------------
(* C27, C28                                                                *)

\* C27: every looking sample is in exactly one duration entry: at the end of
\* analyze the run lengths pushed to eye_contact_durations, the final flush
\* included, add up to the number of looking samples, and during the loop
\* they do so together with the run still open.  An entry is run length *
\* frame_interval / fps, so the numerators add up to frame_interval times
\* the run lengths.
C27_RunLengthsSumToLooking ==
    /\ eye.pc = "done" =>
          SumNum(eye.eye_contact_durations)
              = eye.frame_interval * LookingSamples(eye.history)
    /\ eye.pc = "loop" =>
          SumNum(eye.eye_contact_durations) + eye.frame_interval * eye.current_duration
              = eye.frame_interval * LookingSamples(eye.history)

\* A finished pass with three looking samples in two duration entries, a
\* sample without a face, and a run flushed at the end of the video.
C27_Witness ==
    /\ eye.pc = "done"
    /\ Len(eye.eye_contact_durations) = 2
    /\ LookingSamples(eye.history) = 3
    /\ eye.history[Len(eye.history)].is_looking
    /\ \E k \in DOMAIN eye.history : eye.history[k].kind = "noface"

\* C28: in every returned record direct_eye_contact_score is
\* eye_contact_percentage / 100, the min with 1 never acting, so the
\* aggregator's eye-contact composite 0.6 (percentage / 100) + 0.4 direct is
\* percentage / 100.
C28_DirectScoreIsPercentage ==
    eye.pc = "done" =>
        /\ RatEq(eye.result.direct_eye_contact_score,
                 Rat(eye.result.eye_contact_percentage.num,
                     eye.result.eye_contact_percentage.den * 100))
        /\ RatEq(eye_contact_composite(eye.result),
                 Rat(eye.result.eye_contact_percentage.num,
                     eye.result.eye_contact_percentage.den * 100))

\* A returned record with two of three face samples looking: the direct
\* score is 2/3.
C28_Witness ==
    /\ eye.pc = "done" /\ eye.total_frames = 3
    /\ eye.eye_contact_frames = 2
    /\ RatEq(eye.result.direct_eye_contact_score, Rat(2, 3))

----------------------------------------------------------------------------
(* C29                                                                     *)

\* The number of valid samples of a history.
ValidSamples(history) ==
    Cardinality({k \in DOMAIN history : history[k].kind = "valid"})

\* C29: after any sequence of samples of which n were valid, the
\* shoulder-alignment, back-straightness and confidence lists hold n scores
\* each and the stability list max(0, n - 1); with exactly one valid sample
\* the returned stability_score is the default 0.7 and the three other
\* fields are the scores of that sample.
C29_ListLengths ==
    /\ posture.pc \in {"loop", "done", "raised"} =>
          LET n == ValidSamples(posture.history)
          IN  /\ Len(posture.shoulder_alignments) = n
              /\ Len(posture.back_straightness_scores) = n
              /\ Len(posture.confidence_scores) = n
              /\ Len(posture.stability_scores) = Max(0, n - 1)
    /\ (posture.pc = "done" /\ ValidSamples(posture.history) = 1) =>
          /\ RatEq(posture.result.stability_score, Rat(7, 10))
          /\ RatEq(posture.result.average_shoulder_alignment,
                   Rat(posture.shoulder_alignments[1], One))
          /\ RatEq(posture.result.average_back_straightness,
                   Rat(posture.back_straightness_scores[1], One))
          /\ RatEq(posture.result.confidence_score,
                   Rat(posture.confidence_scores[1], One))

\* A finished pass with one valid sample among skipped ones, measured
\* alignment off the default, stability at the default.
C29_Witness ==
    /\ posture.pc = "done"
    /\ ValidSamples(posture.history) = 1
    /\ Len(posture.history) >= 3
    /\ posture.stability_scores = <<>>
    /\ RatEq(posture.result.stability_score, Rat(7, 10))
    /\ ~RatEq(posture.result.average_shoulder_alignment, Rat(7, 10))

----------------------------------------------------------------------------
(* C30                                                                     *)

\* C30: on every exit path of analyze_full after the temporary file was
\* created, the temporary video file and any extracted audio file are gone
\* when the request has been answered, and the cleanup block did not raise.
C30_TemporaryFilesDeleted ==
    request.pc = "responded" =>
        /\ ~request.tmp_file
        /\ ~request.audio_file
        /\ request.cleanup # "raised"

====
